---------------------------- MODULE Spec2Model ----------------------------
(***************************************************************************)
(* A model of rgit's packfile codec, delta patcher and pack index.         *)
(*                                                                         *)
(* Byte buffers are sequences of integers 0..255.  Every parser is         *)
(* computed over the bytes the way the code computes it; a Rust panic      *)
(* (unwrap on None/Err, assert_eq!, slice out of range) and an Err return  *)
(* are both recorded as a failed operation.                                *)
(***************************************************************************)
EXTENDS Integers, Sequences, FiniteSets, TLC

VARIABLES
    d_src,      \* delta: index of the source buffer in Sources
    d_delta,    \* delta: DeltaPatcher.delta, the unread rest of the delta
    d_target,   \* delta: DeltaPatcher.target_len
    d_result,   \* delta: the result vector of run_to_end
    d_log,      \* delta: the commands executed so far, with the bytes each produced
    d_pc        \* delta: "idle" | "new" | "run" | "done" | "panic"

varsDelta == <<d_src, d_delta, d_target, d_result, d_log, d_pc>>

VARIABLES
    i_objects,  \* index: the (offset, crc, object) list given to from_objects
    i_index,    \* index: the PackIndex in memory, or NoIndex
    i_file,     \* index: the bytes of the .idx file
    i_source,   \* index: the bytes the index in memory was parsed from, or <<>>
    i_encoded,  \* index: the last result of encode()
    i_query,    \* index: the sha last passed to find
    i_found,    \* index: the last result of find
    i_tamper,   \* index: what happens to the .idx file on disk before it is opened
    i_pc        \* index: "idle" | "start" | "ready" | "found" | "written" | "on disk" |
                \*        "opened" | "encoded" | "panic"

varsIndex == <<i_objects, i_index, i_file, i_source, i_encoded, i_query, i_found,
               i_tamper, i_pc>>

VARIABLES
    p_layout,   \* pack: the entries the pack was written from
    p_tamper,   \* pack: what happened to the .pack file before it is parsed
    p_file,     \* pack: the bytes given to PackFile::parse
    p_iter,     \* pack: the Objects iterator of parse_with_index
    p_objects,  \* pack: the (offset, crc, object) items collected from the iterator
    p_pack,     \* pack: the PackFile (version, num_objects, encoded_objects, sha, index)
    p_query,    \* pack: the hex sha last passed to find_by_sha
    p_found,    \* pack: the last result of find_by_sha
    p_encoded,  \* pack: the last result of encode()
    p_pc        \* pack: "idle" | "closed" | "collecting" | "open" | "found" |
                \*       "encoded" | "panic"

varsPack == <<p_layout, p_tamper, p_file, p_iter, p_objects, p_pack, p_query, p_found,
              p_encoded, p_pc>>

VARIABLES
    r_loose,    \* repo: the loose object file under .git/objects, or NoLoose
    r_query,    \* repo: the sha last passed to Repo::read_object
    r_result,   \* repo: the last result of Repo::read_object
    r_pc        \* repo: "idle" | "ready" | "read" | "panic"

varsRepo == <<r_loose, r_query, r_result, r_pc>>

VARIABLES
    f_files,    \* refs: the files under the repository, path |-> contents
    f_name,     \* refs: the name the current call of resolve_ref was given
    f_depth,    \* refs: how many "ref: " indirections were followed so far
    f_result,   \* refs: the Sha resolve_ref returned
    f_pc        \* refs: "idle" | "resolving" | "done" | "err" | "panic" | "deep"

varsRefs == <<f_files, f_name, f_depth, f_result, f_pc>>

VARIABLES
    x_index,    \* staging index: the Index given to encode_index, as it leaves it
    x_bytes,    \* staging index: the bytes encode_index wrote
    x_read,     \* staging index: the result of read_index on those bytes
    x_pc        \* staging index: "idle" | "start" | "encoded" | "read"

varsStaging == <<x_index, x_bytes, x_read, x_pc>>

VARIABLES
    w_shape,    \* work tree: what the repository's objects and refs were written from
    w_dir,      \* work tree: Repo.dir, the directory given to clone
    w_files,    \* work tree: the files under <dir>/.git that hold refs, path |-> contents
    w_objects,  \* work tree: the loose objects, hex sha |-> bytes of the file
    w_tree,     \* work tree: the files checkout wrote, path |-> content and mode
    w_dirs,     \* work tree: the directories checkout created
    w_index,    \* work tree: the Index write_index wrote to <dir>/.git/index, or <<>>
    w_sha,      \* log: the local `sha` of Repo::log
    w_visited,  \* log: the commits the loop of Repo::log has read, in order
    w_printed,  \* log: what Repo::log has written to stdout
    w_result,   \* work tree: "" | "ok" | "err" | "panic", how the operation ended
    w_pc        \* work tree: "idle" | "cloned" | "checked out" | "logging" | "logged"

varsWork == <<w_shape, w_dir, w_files, w_objects, w_tree, w_dirs, w_index, w_sha,
              w_visited, w_printed, w_result, w_pc>>

VARIABLES
    g_refs,     \* ref writer: the refs the remote advertised, (id, name) each
    g_files,    \* ref writer: the files under <dir>/.git, path |-> contents
    g_result,   \* ref writer: "" | "ok" | "err"
    g_pc        \* ref writer: "idle" | "discovered" | "refs" | "head"

varsWriter == <<g_refs, g_files, g_result, g_pc>>

VARIABLES
    s_lines,    \* sideband: the pkt-lines the server sends, payload each, <<>> a flush
    s_stream,   \* sideband: the bytes of the response not yet read
    s_contents, \* sideband: the local `contents` of receive_with_sideband
    s_stderr,   \* sideband: what was printed to stderr
    s_result,   \* sideband: "" | "ok" | "err" | "panic"
    s_pc        \* sideband: "idle" | "receiving" | "done"

varsSideband == <<s_lines, s_stream, s_contents, s_stderr, s_result, s_pc>>

VARIABLES
    q_build,    \* request: "debug" | "release", whether integer overflow is checked
    q_caps,     \* request: the capabilities given to create_negotiation_request
    q_refs,     \* request: the refs given to it, (id, name) each
    q_items,    \* request: the strings given to write_as_pktline, or the one of write_pktline
    q_buf,      \* request: the buffer the operation wrote into
    q_result,   \* request: "" | "ok" | "panic"
    q_pc        \* request: "idle" | "start" | "line" | "joined line" | "request"

varsRequest == <<q_build, q_caps, q_refs, q_items, q_buf, q_result, q_pc>>

VARIABLES
    t_entries,  \* tree: the (mode, path, sha) entries the tree object was written from
    t_content,  \* tree: the content of the tree object
    t_tree,     \* tree: the result of Tree::parse
    t_pc        \* tree: "idle" | "stored" | "parsed"

varsTree == <<t_entries, t_content, t_tree, t_pc>>

VARIABLES
    o_layout,   \* reader: the entries the stream was written from
    o_inner,    \* reader: the bytes of the underlying reader
    o_rd,       \* reader: the ObjectReader (inner position, pos, cap, consumed_bytes)
    o_calls,    \* reader: the calls made so far, "object" or the length of a read
    o_last,     \* reader: "" | "ok" | "err" | "panic", how the last call ended
    o_pc        \* reader: "idle" | "reading" | "failed"

varsReader == <<o_layout, o_inner, o_rd, o_calls, o_last, o_pc>>

\* The components of the object store and of the commands built on it
varsStore == <<varsRepo, varsRefs, varsStaging, varsWork, varsWriter, varsSideband,
              varsRequest, varsTree, varsReader>>

vars == <<varsDelta, varsIndex, varsPack, varsStore>>

\* What the operations of one component leave alone: the other components.
notDelta == <<varsIndex, varsPack, varsStore>>
notIndex == <<varsDelta, varsPack, varsStore>>
notPack == <<varsDelta, varsIndex, varsStore>>
notRepo == <<varsDelta, varsIndex, varsPack, varsRefs, varsStaging, varsWork,
             varsWriter, varsSideband, varsRequest, varsTree, varsReader>>
notRefs == <<varsDelta, varsIndex, varsPack, varsRepo, varsStaging, varsWork,
             varsWriter, varsSideband, varsRequest, varsTree, varsReader>>
notStaging == <<varsDelta, varsIndex, varsPack, varsRepo, varsRefs, varsWork,
                varsWriter, varsSideband, varsRequest, varsTree, varsReader>>
notWork == <<varsDelta, varsIndex, varsPack, varsRepo, varsRefs, varsStaging,
             varsWriter, varsSideband, varsRequest, varsTree, varsReader>>
notWriter == <<varsDelta, varsIndex, varsPack, varsRepo, varsRefs, varsStaging,
               varsWork, varsSideband, varsRequest, varsTree, varsReader>>
notSideband == <<varsDelta, varsIndex, varsPack, varsRepo, varsRefs, varsStaging,
                 varsWork, varsWriter, varsRequest, varsTree, varsReader>>
notRequest == <<varsDelta, varsIndex, varsPack, varsRepo, varsRefs, varsStaging,
                varsWork, varsWriter, varsSideband, varsTree, varsReader>>
notTree == <<varsDelta, varsIndex, varsPack, varsRepo, varsRefs, varsStaging, varsWork,
             varsWriter, varsSideband, varsRequest, varsReader>>
notReader == <<varsDelta, varsIndex, varsPack, varsRepo, varsRefs, varsStaging,
               varsWork, varsWriter, varsSideband, varsRequest, varsTree>>

---------------------------------------------------------------------------
(* Arithmetic on bytes.                                                    *)

Min(a, b) == IF a < b THEN a ELSE b
Max(a, b) == IF a < b THEN b ELSE a

Pow2(n) == 2 ^ n

\* A usize or u32 that may exceed the integers of the checker is kept as two
\* halves: the value is hi * 2^16 + lo, with lo < 2^16.
Half == Pow2(16)
Wide(n) == [hi |-> n \div Half, lo |-> n % Half]
WideAdd(w, n) == [hi |-> w.hi + ((w.lo + n) \div Half), lo |-> (w.lo + n) % Half]

\* `x as u32`: the low 32 bits
as_u32(w) == [hi |-> w.hi % Half, lo |-> w.lo]

\* `x as usize` of a u32 that is below 2^31
as_usize(w) == w.hi * Half + w.lo

\* Option<usize>
None == [some |-> FALSE, offset |-> Wide(0)]
Some(w) == [some |-> TRUE, offset |-> w]

\* write_u32::<BigEndian> and read_u32::<BigEndian> of such a value
WideU32BE(w) == <<w.hi \div 256, w.hi % 256, w.lo \div 256, w.lo % 256>>
ReadWideU32(s, pos) ==
    [hi |-> s[pos + 1] * 256 + s[pos + 2], lo |-> s[pos + 3] * 256 + s[pos + 4]]

\* write_u32::<BigEndian>
U32BE(n) == <<(n \div Pow2(24)) % 256, (n \div Pow2(16)) % 256, (n \div 256) % 256, n % 256>>

\* read_u32::<BigEndian> of the four bytes after position pos (0-based), for
\* the counts of the model, which are below 2^31
ReadU32(s, pos) ==
    s[pos + 1] * Pow2(24) + s[pos + 2] * Pow2(16) + s[pos + 3] * 256 + s[pos + 4]

\* s[from..to] of Rust: the bytes at 0-based positions from .. to-1
Slice(s, from, to) == SubSeq(s, from + 1, to)

RECURSIVE SumRange(_, _, _)
SumRange(s, lo, hi) ==
    IF lo > hi THEN 0
    ELSE IF lo = hi THEN s[lo]
    ELSE LET mid == (lo + hi) \div 2
         IN  SumRange(s, lo, mid) + SumRange(s, mid + 1, hi)

RECURSIVE WeightedRange(_, _, _)
WeightedRange(s, lo, hi) ==
    IF lo > hi THEN 0
    ELSE IF lo = hi THEN lo * (s[lo] + 1)
    ELSE LET mid == (lo + hi) \div 2
         IN  WeightedRange(s, lo, mid) + WeightedRange(s, mid + 1, hi)

\* The 20-byte SHA-1 digest of a byte sequence.  SHA-1 itself is a library
\* function; it is modelled by a digest that keeps what the code relies on:
\* 20 bytes, a function of the input alone, different for inputs that differ
\* in length (mod 256) or in one byte, and injective on inputs of up to 16
\* bytes (every object header ++ content of the model).
ShaLen == 20
sha1_hash(s) ==
    LET a == SumRange(s, 1, Len(s))
        b == WeightedRange(s, 1, Len(s))
    IN  <<a % 256, Len(s) % 256, (b \div 256) % 256, b % 256>>
        \o [i \in 1..(ShaLen - 4) |-> IF i <= Len(s) THEN s[i] ELSE 0]

\* to_hex: two lowercase hex digits per byte, as character codes
HexDigit(n) == IF n < 10 THEN 48 + n ELSE 87 + n
to_hex(bytes) ==
    [i \in 1..(2 * Len(bytes)) |->
        LET b == bytes[(i + 1) \div 2]
        IN  HexDigit(IF i % 2 = 1 THEN b \div 16 ELSE b % 16)]

\* from_hex of a string of hex digits of even length
HexValue(c) == IF c < 58 THEN c - 48 ELSE c - 87
from_hex(hex) ==
    [i \in 1..(Len(hex) \div 2) |-> HexValue(hex[2 * i - 1]) * 16 + HexValue(hex[2 * i])]

sha1_hash_hex(s) == to_hex(sha1_hash(s))

\* Ordering of byte strings (and of hex strings): -1, 0, 1 as a < b, a = b, a > b
RECURSIVE cmp(_, _)
cmp(a, b) ==
    IF a = <<>> /\ b = <<>> THEN 0
    ELSE IF a = <<>> THEN -1
    ELSE IF b = <<>> THEN 1
    ELSE IF Head(a) < Head(b) THEN -1
    ELSE IF Head(a) > Head(b) THEN 1
    ELSE cmp(Tail(a), Tail(b))

\* The decimal digits of n, as character codes (usize::to_string)
RECURSIVE to_string(_)
to_string(n) == IF n < 10 THEN <<48 + n>> ELSE Append(to_string(n \div 10), 48 + (n % 10))

\* GitObject: [obj_type |-> "blob" | "tree" | "commit" | "tag", content |-> bytes]
TypeName(t) ==
    CASE t = "commit" -> <<99, 111, 109, 109, 105, 116>>
      [] t = "tree"   -> <<116, 114, 101, 101>>
      [] t = "blob"   -> <<98, 108, 111, 98>>
      [] t = "tag"    -> <<116, 97, 103>>

\* header: "<type> <size>\0"
object_header(obj) == TypeName(obj.obj_type) \o <<32>> \o to_string(Len(obj.content)) \o <<0>>

\* encode: header ++ content
object_encode(obj) == object_header(obj) \o obj.content

\* sha: the hash of the encoded representation
object_sha(obj) == sha1_hash(object_encode(obj))

Blob(content) == [obj_type |-> "blob", content |-> content]

\* bit k (0 = least significant) of x is set
Bit(x, k) == (x \div Pow2(k)) % 2 = 1

\* x & mask, for a mask of the form 2^k - 1
LowBits(x, k) == x % Pow2(k)

---------------------------------------------------------------------------
(* The state of a component that is not in use.                            *)

DeltaIdle ==
    /\ d_src = 1 /\ d_delta = <<>> /\ d_target = 0
    /\ d_result = <<>> /\ d_log = <<>> /\ d_pc = "idle"

IndexIdle ==
    /\ i_objects = <<>> /\ i_index = <<>> /\ i_file = <<>> /\ i_source = <<>>
    /\ i_encoded = <<>> /\ i_query = <<>> /\ i_found = None
    /\ i_tamper = [kind |-> "none", reseal |-> FALSE]
    /\ i_pc = "idle"

PackIdle ==
    /\ p_layout = <<>> /\ p_file = <<>> /\ p_iter = <<>> /\ p_objects = <<>>
    /\ p_pack = <<>> /\ p_query = <<>> /\ p_found = <<>> /\ p_encoded = <<>>
    /\ p_tamper = [kind |-> "none", reseal |-> FALSE]
    /\ p_pc = "idle"

RepoIdle ==
    /\ r_loose = <<>> /\ r_query = <<>> /\ r_result = <<>> /\ r_pc = "idle"

RefsIdle ==
    /\ f_files = <<>> /\ f_name = <<>> /\ f_depth = 0 /\ f_result = <<>> /\ f_pc = "idle"

StagingIdle ==
    /\ x_index = <<>> /\ x_bytes = <<>> /\ x_read = <<>> /\ x_pc = "idle"

WorkIdle ==
    /\ w_shape = <<>> /\ w_dir = <<>> /\ w_files = <<>> /\ w_objects = <<>>
    /\ w_tree = <<>> /\ w_dirs = {} /\ w_index = <<>> /\ w_sha = <<>>
    /\ w_visited = <<>> /\ w_printed = <<>> /\ w_result = "" /\ w_pc = "idle"

WriterIdle ==
    /\ g_refs = <<>> /\ g_files = <<>> /\ g_result = "" /\ g_pc = "idle"

SidebandIdle ==
    /\ s_lines = <<>> /\ s_stream = <<>> /\ s_contents = <<>> /\ s_stderr = <<>>
    /\ s_result = "" /\ s_pc = "idle"

RequestIdle ==
    /\ q_build = "" /\ q_caps = <<>> /\ q_refs = <<>> /\ q_items = <<>> /\ q_buf = <<>>
    /\ q_result = "" /\ q_pc = "idle"

TreeIdle ==
    /\ t_entries = <<>> /\ t_content = <<>> /\ t_tree = <<>> /\ t_pc = "idle"

ReaderIdle ==
    /\ o_layout = <<>> /\ o_inner = <<>> /\ o_rd = <<>> /\ o_calls = <<>> /\ o_last = ""
    /\ o_pc = "idle"

\* The codecs of the wire and of the objects are not running
CodecsIdle ==
    /\ RequestIdle
    /\ TreeIdle
    /\ ReaderIdle

\* The commands built on the store are not running
CommandsIdle ==
    /\ WorkIdle
    /\ WriterIdle
    /\ SidebandIdle
    /\ CodecsIdle

StoreIdle ==
    /\ RepoIdle
    /\ RefsIdle
    /\ StagingIdle
    /\ CommandsIdle

---------------------------------------------------------------------------
(* delta.rs                                                                *)

\* The bytes a delta may be made of: insert opcodes 0x00, 0x01, 0x02 and
\* copy opcodes 0x80 (no offset byte, no length byte), 0x90 (one length
\* byte), 0x91 (one offset byte and one length byte).  The same values serve
\* as header varint bytes, offset bytes, length bytes and inserted data.
DeltaBytes == {0, 1, 2, 128, 144, 145}

MaxDeltaLen == 4

\* The length a copy of decoded length zero stands for in the pack format.
ZeroCopyLen == Pow2(16)

RECURSIVE SeqsUpTo(_, _)
SeqsUpTo(S, n) ==
    IF n = 0 THEN {<<>>}
    ELSE LET shorter == SeqsUpTo(S, n - 1)
         IN  shorter \cup {Append(s, b) : s \in {t \in shorter : Len(t) = n - 1}, b \in S}

\* A base long enough for a 65536-byte copy from offsets 0..4.
BigSource == [i \in 1..(ZeroCopyLen + 4) |-> i % 251]

Sources == << <<>>, <<7>>, <<7, 8, 9>>, BigSource >>

Source(id) == Sources[id]

\* DeltaHeader::decode_size: little-endian base-128 varint; read_u8().unwrap()
\* panics when the delta ends inside the varint.
RECURSIVE decode_size_loop(_, _, _)
decode_size_loop(delta, size, count) ==
    IF delta = <<>> THEN [ok |-> FALSE, size |-> size, count |-> count, rest |-> delta]
    ELSE LET byte  == Head(delta)
             size2 == size + LowBits(byte, 7) * Pow2(7 * count)
         IN  IF Bit(byte, 7)
             THEN decode_size_loop(Tail(delta), size2, count + 1)
             ELSE [ok |-> TRUE, size |-> size2, count |-> count + 1, rest |-> Tail(delta)]

decode_size(delta) == decode_size_loop(delta, 0, 0)

\* DeltaHeader::new: source_len, then target_len.
DeltaHeader_new(delta) ==
    LET s == decode_size(delta)
        t == decode_size(s.rest)
    IN  IF ~s.ok \/ ~t.ok
        THEN [ok |-> FALSE, source_len |-> 0, target_len |-> 0, rest |-> <<>>]
        ELSE [ok |-> TRUE, source_len |-> s.size, target_len |-> t.size, rest |-> t.rest]

\* The loops of next_command: for each mask bit of cmd that is set, one byte
\* is read and added at the current shift; the shift advances for every mask.
RECURSIVE read_masked(_, _, _, _, _)
read_masked(delta, cmd, bits, shift, acc) ==
    IF bits = <<>> THEN [ok |-> TRUE, value |-> acc, rest |-> delta]
    ELSE IF Bit(cmd, Head(bits))
         THEN IF delta = <<>> THEN [ok |-> FALSE, value |-> acc, rest |-> delta]
              ELSE read_masked(Tail(delta), cmd, Tail(bits), shift + 8,
                               acc + Head(delta) * Pow2(shift))
         ELSE read_masked(delta, cmd, Tail(bits), shift + 8, acc)

\* DeltaPatcher::next_command (called with a non-empty delta).
next_command(delta) ==
    LET cmd == Head(delta)
    IN  IF Bit(cmd, 7)
        THEN LET off == read_masked(Tail(delta), cmd, <<0, 1, 2, 3>>, 0, 0)
                 len == read_masked(off.rest, cmd, <<4, 5, 6>>, 0, 0)
             IN  [ok |-> off.ok /\ len.ok, kind |-> "Copy", cmd |-> cmd,
                  start |-> off.value, length |-> len.value, rest |-> len.rest]
        ELSE [ok |-> TRUE, kind |-> "Insert", cmd |-> cmd,
              start |-> 0, length |-> cmd, rest |-> Tail(delta)]

\* DeltaPatcher::run_command: Copy is source.iter().skip(start).take(length);
\* Insert reads exactly `length` bytes of the delta (read_exact().unwrap()).
run_command(source, op) ==
    IF op.kind = "Copy"
    THEN LET n == Min(op.length, Max(0, Len(source) - op.start))
         IN  [ok |-> TRUE, buf |-> [i \in 1..n |-> source[op.start + i]], rest |-> op.rest]
    ELSE IF Len(op.rest) < op.length
         THEN [ok |-> FALSE, buf |-> <<>>, rest |-> op.rest]
         ELSE [ok |-> TRUE, buf |-> SubSeq(op.rest, 1, op.length),
               rest |-> SubSeq(op.rest, op.length + 1, Len(op.rest))]

\* DeltaPatcher::next, for a non-empty delta: one command decoded and run.
patcher_next(source, delta) ==
    LET op  == next_command(delta)
        out == run_command(source, op)
    IN  IF ~op.ok THEN [ok |-> FALSE, op |-> op, buf |-> <<>>, rest |-> <<>>]
        ELSE [ok |-> out.ok, op |-> op, buf |-> out.buf, rest |-> out.rest]

\* DeltaPatcher::run_to_end: loop over next(), then assert_eq!(len, target_len).
RECURSIVE run_to_end(_, _, _, _)
run_to_end(source, delta, target_len, result) ==
    IF delta = <<>>
    THEN [ok |-> Len(result) = target_len, out |-> result]
    ELSE LET n == patcher_next(source, delta)
         IN  IF ~n.ok THEN [ok |-> FALSE, out |-> <<>>]
             ELSE run_to_end(source, n.rest, target_len, result \o n.buf)

\* delta::patch(source, delta)
patch(source, delta) ==
    LET h == DeltaHeader_new(delta)
    IN  IF ~h.ok THEN [ok |-> FALSE, out |-> <<>>]
        ELSE run_to_end(source, h.rest, h.target_len, <<>>)

(* The patcher as a state machine: DeltaPatcher::new, one action per       *)
(* iteration of the loop of run_to_end, and its final assertion.           *)

InitDelta ==
    /\ StoreIdle
    /\ IndexIdle
    /\ PackIdle
    /\ d_src \in 1..Len(Sources)
    /\ d_delta \in SeqsUpTo(DeltaBytes, MaxDeltaLen)
    /\ d_target = 0
    /\ d_result = <<>>
    /\ d_log = <<>>
    /\ d_pc = "new"

PatcherNew ==
    /\ d_pc = "new"
    /\ LET h == DeltaHeader_new(d_delta)
       IN  IF h.ok
           THEN /\ d_pc' = "run"
                /\ d_delta' = h.rest
                /\ d_target' = h.target_len
           ELSE /\ d_pc' = "panic"
                /\ UNCHANGED <<d_delta, d_target>>
    /\ UNCHANGED <<d_src, d_result, d_log>>
    /\ UNCHANGED notDelta

PatcherNext ==
    /\ d_pc = "run"
    /\ d_delta # <<>>
    /\ LET n == patcher_next(Source(d_src), d_delta)
       IN  IF n.ok
           THEN /\ d_pc' = "run"
                /\ d_delta' = n.rest
                /\ d_result' = d_result \o n.buf
                /\ d_log' = Append(d_log, [kind |-> n.op.kind, cmd |-> n.op.cmd,
                                           start |-> n.op.start, length |-> n.op.length,
                                           buf |-> n.buf])
           ELSE /\ d_pc' = "panic"
                /\ UNCHANGED <<d_delta, d_result, d_log>>
    /\ UNCHANGED <<d_src, d_target>>
    /\ UNCHANGED notDelta

PatcherFinish ==
    /\ d_pc = "run"
    /\ d_delta = <<>>
    /\ d_pc' = IF Len(d_result) = d_target THEN "done" ELSE "panic"
    /\ UNCHANGED <<d_src, d_delta, d_target, d_result, d_log>>
    /\ UNCHANGED notDelta

NextDelta == PatcherNew \/ PatcherNext \/ PatcherFinish

SpecDelta == InitDelta /\ [][NextDelta]_vars

\* The copies and inserts the patcher has executed.
Copies == {i \in 1..Len(d_log) : d_log[i].kind = "Copy"}
Inserts == {i \in 1..Len(d_log) : d_log[i].kind = "Insert"}

\* C4: a Copy whose decoded length is zero (no length byte selected, or all
\* selected length bytes zero) copies exactly 65536 bytes of the base,
\* starting at the decoded offset.
C4_ZeroLengthCopyIs64K ==
    \A i \in Copies :
        (d_log[i].length = 0 /\ d_log[i].start + ZeroCopyLen <= Len(Source(d_src)))
            => d_log[i].buf = SubSeq(Source(d_src), d_log[i].start + 1,
                                     d_log[i].start + ZeroCopyLen)

\* C5: no delta that contains an Insert opcode of length 0 (byte 0x00)
\* produces a result.
C5_ZeroInsertFails ==
    d_pc = "done" => \A i \in Inserts : d_log[i].length # 0

\* C6: no result is returned once a Copy has addressed bytes outside the base
\* (offset + length > len(base)), whatever target length the header declares.
\* Stated for copies of non-zero decoded length, so that it does not rest on
\* how a zero length is read.
C6_OutOfRangeCopyFails ==
    d_pc = "done" =>
        \A i \in Copies :
            d_log[i].length # 0
                => d_log[i].start + d_log[i].length <= Len(Source(d_src))

---------------------------------------------------------------------------
(* zlib and CRC-32 (library code, as far as the pack reader depends on it) *)

\* a XOR b for 16-bit halves
RECURSIVE Xor(_, _, _)
Xor(a, b, bits) ==
    IF bits = 0 THEN 0
    ELSE ((a + b) % 2) + 2 * Xor(a \div 2, b \div 2, bits - 1)

\* One bit of the reflected CRC-32 (polynomial 0xEDB88320) on a register kept
\* as two halves.
crc_shift(reg) ==
    LET shifted == [hi |-> reg.hi \div 2, lo |-> (reg.lo \div 2) + (reg.hi % 2) * Pow2(15)]
    IN  IF reg.lo % 2 = 1
        THEN [hi |-> Xor(shifted.hi, 60856, 16), lo |-> Xor(shifted.lo, 33568, 16)]
        ELSE shifted

\* (each register is computed before the next step is taken)
RECURSIVE crc_bits(_, _)
crc_bits(reg, n) ==
    IF n = 0 THEN reg
    ELSE LET go(next) == IF next.lo >= 0 THEN crc_bits(next, n - 1) ELSE next
         IN  go(crc_shift(reg))

RECURSIVE crc_update(_, _, _)
crc_update(reg, bytes, i) ==
    IF i > Len(bytes) THEN reg
    ELSE LET go(next) == IF next.lo >= 0 THEN crc_update(next, bytes, i + 1) ELSE next
         IN  go(crc_bits([hi |-> reg.hi, lo |-> Xor(reg.lo, bytes[i], 16)], 8))

\* Crc::<u32>::new(&CRC_32_ISO_HDLC).checksum(bytes)
crc32_checksum(bytes) ==
    LET final(reg) == [hi |-> Half - 1 - reg.hi, lo |-> Half - 1 - reg.lo]
    IN  final(crc_update([hi |-> Half - 1, lo |-> Half - 1], bytes, 1))

\* Adler-32 of a byte sequence: <<b, a>>, both below 65521.  The loop over the
\* bytes from the i-th on adds each byte to a and each new a to b; its sums are
\* taken here by halves of the range.
RECURSIVE FromEndRange(_, _, _)
FromEndRange(s, lo, hi) ==
    IF lo > hi THEN 0
    ELSE IF lo = hi THEN (Len(s) - lo + 1) * s[lo]
    ELSE LET mid == (lo + hi) \div 2
         IN  FromEndRange(s, lo, mid) + FromEndRange(s, mid + 1, hi)

adler32(bytes, i, a, b) ==
    [a |-> (a + SumRange(bytes, i, Len(bytes))) % 65521,
     b |-> (b + (Len(bytes) - i + 1) * a + FromEndRange(bytes, i, Len(bytes))) % 65521]

adler32_be(bytes) ==
    LET be(ck) == <<ck.b \div 256, ck.b % 256, ck.a \div 256, ck.a % 256>>
    IN  be(adler32(bytes, 1, 1, 0))

\* A zlib stream of stored (uncompressed) deflate blocks, decoded from the
\* input seen so far.  status: "end" (the stream is complete in `used` bytes),
\* "more" (the input ends inside the stream) or "err".  Compressed blocks are
\* not decoded: the packs of the model hold stored blocks only.
RECURSIVE inflate_blocks(_, _, _)
inflate_blocks(z, p, out) ==
    IF Len(z) < p + 1 THEN [status |-> "more", used |-> Len(z), out |-> out]
    ELSE IF (z[p + 1] \div 2) % 4 # 0 THEN [status |-> "err", used |-> p, out |-> out]
    ELSE IF Len(z) < p + 5 THEN [status |-> "more", used |-> Len(z), out |-> out]
    ELSE LET final == z[p + 1] % 2 = 1
             len   == z[p + 2] + 256 * z[p + 3]
             nlen  == z[p + 4] + 256 * z[p + 5]
             out2  == out \o Slice(z, p + 5, p + 5 + len)
         IN  IF len + nlen # 65535 THEN [status |-> "err", used |-> p, out |-> out]
             ELSE IF Len(z) < p + 5 + len THEN [status |-> "more", used |-> Len(z), out |-> out]
             ELSE IF ~final THEN inflate_blocks(z, p + 5 + len, out2)
             ELSE IF Len(z) < p + 5 + len + 4
                  THEN [status |-> "more", used |-> Len(z), out |-> out2]
             ELSE IF Slice(z, p + 5 + len, p + 5 + len + 4) # adler32_be(out2)
                  THEN [status |-> "err", used |-> p, out |-> out2]
             ELSE [status |-> "end", used |-> p + 5 + len + 4, out |-> out2]

inflate(z) ==
    IF Len(z) < 2 THEN [status |-> "more", used |-> Len(z), out |-> <<>>]
    ELSE IF z[1] % 16 # 8 \/ (z[1] * 256 + z[2]) % 31 # 0 \/ (z[2] \div 32) % 2 = 1
         THEN [status |-> "err", used |-> 0, out |-> <<>>]
    ELSE inflate_blocks(z, 2, <<>>)

\* Decompress::decompress_vec on a decompressor that has taken `zin` so far and
\* is given `avail`: the status and the growth of total_in.
decompress_vec(zin, avail) ==
    LET of(d) ==
          CASE d.status = "end"  ->
                 [status |-> "StreamEnd", nread |-> d.used - Len(zin), out |-> d.out]
            [] d.status = "err"  -> [status |-> "Err", nread |-> 0, out |-> d.out]
            [] d.status = "more" ->
                 IF avail = <<>> THEN [status |-> "BufError", nread |-> 0, out |-> d.out]
                 ELSE [status |-> "Ok", nread |-> Len(avail), out |-> d.out]
    IN  of(inflate(zin \o avail))

\* The pack writer's side (git's, not rgit's): one stored block, final.
deflate_stored(content) ==
    LET len == Len(content)
    IN  <<120, 1, 1, len % 256, len \div 256, 255 - (len % 256), 255 - (len \div 256)>>
        \o content \o adler32_be(content)

---------------------------------------------------------------------------
(* packfile/mod.rs: ObjectReader *)

BUFFER_SIZE == 4 * 1024

\* The shifts of the two varint loops are kept below the width of the model's
\* integers; a longer varint is reported as a failed read.
MaxShift == 24

\* ObjectReader::new.  inner_pos is the position of the inner reader; the
\* buffer holds the `cap` bytes before it.
ObjectReader_new == [inner_pos |-> 0, pos |-> 0, cap |-> 0, consumed_bytes |-> 0]

fill_buffer(inner, rd) ==
    IF rd.pos = rd.cap
    THEN LET n == Min(BUFFER_SIZE, Len(inner) - rd.inner_pos)
         IN  [rd EXCEPT !.inner_pos = @ + n, !.cap = n, !.pos = 0]
    ELSE rd

\* &self.buf[self.pos..self.cap]
buffered(inner, rd) == Slice(inner, rd.inner_pos - rd.cap + rd.pos, rd.inner_pos)

\* consume that gives up what is left in the buffer
consume_whole_buffer(rd, amt) ==
    [rd EXCEPT !.consumed_bytes = @ + amt, !.pos = rd.cap]

consume(rd, amt) ==
    [rd EXCEPT !.consumed_bytes = @ + amt, !.pos = Min(rd.pos + amt, rd.cap)]

\* impl Read for ObjectReader: read into a buffer of `len` bytes
reader_read(inner, rd, len) ==
    IF rd.pos = rd.cap /\ len >= BUFFER_SIZE
    THEN LET n == Min(len, Len(inner) - rd.inner_pos)
         IN  [bytes |-> Slice(inner, rd.inner_pos, rd.inner_pos + n),
              rd    |-> [rd EXCEPT !.inner_pos = @ + n, !.consumed_bytes = @ + n]]
    ELSE LET take(filled, rem, n) ==
               [bytes |-> SubSeq(rem, 1, n), rd |-> consume(filled, n)]
             from(filled, rem) == take(filled, rem, Min(len, Len(rem)))
             fill(filled) == from(filled, buffered(inner, filled))
         IN  fill(fill_buffer(inner, rd))

\* Read::read_exact: read until the buffer is full; a read of 0 bytes is
\* UnexpectedEof.
RECURSIVE read_exact(_, _, _, _)
read_exact(inner, rd, len, acc) ==
    IF len = 0 THEN [ok |-> TRUE, bytes |-> acc, rd |-> rd]
    ELSE LET got(r) ==
               IF r.bytes = <<>> THEN [ok |-> FALSE, bytes |-> acc, rd |-> r.rd]
               ELSE read_exact(inner, r.rd, len - Len(r.bytes), acc \o r.bytes)
         IN  got(reader_read(inner, rd, len))

read_u8(inner, rd) ==
    LET got(r) == [ok |-> r.ok, byte |-> IF r.ok THEN r.bytes[1] ELSE 0, rd |-> r.rd]
    IN  got(read_exact(inner, rd, 1, <<>>))

\* The size loop of read_object: 7 more bits per continuation byte
RECURSIVE read_size(_, _, _, _, _)
read_size(inner, rd, c, size, shift) ==
    IF ~Bit(c, 7) THEN [ok |-> TRUE, value |-> size, rd |-> rd]
    ELSE IF shift > MaxShift THEN [ok |-> FALSE, value |-> size, rd |-> rd]
    ELSE LET got(b) ==
               IF ~b.ok THEN [ok |-> FALSE, value |-> size, rd |-> b.rd]
               ELSE read_size(inner, b.rd, b.byte,
                              size + LowBits(b.byte, 7) * Pow2(shift), shift + 7)
         IN  got(read_u8(inner, rd))

\* ObjectReader::read_offset
RECURSIVE read_offset_loop(_, _, _, _, _)
read_offset_loop(inner, rd, c, offset, count) ==
    IF ~Bit(c, 7) THEN [ok |-> TRUE, value |-> offset, rd |-> rd]
    ELSE IF 7 * count > MaxShift THEN [ok |-> FALSE, value |-> offset, rd |-> rd]
    ELSE LET got(b) ==
               IF ~b.ok THEN [ok |-> FALSE, value |-> offset, rd |-> b.rd]
               ELSE read_offset_loop(inner, b.rd, b.byte,
                                     (offset + 1) * Pow2(7) + LowBits(b.byte, 7), count + 1)
         IN  got(read_u8(inner, rd))

read_offset(inner, rd) ==
    LET got(b) ==
          IF ~b.ok THEN [ok |-> FALSE, value |-> 0, rd |-> b.rd]
          ELSE read_offset_loop(inner, b.rd, b.byte, LowBits(b.byte, 7), 1)
    IN  got(read_u8(inner, rd))

\* ObjectReader::read_object_content: the buffer is handed to the decompressor
\* until the stream ends; the inflated length must be the declared size.
RECURSIVE read_object_content(_, _, _, _)
read_object_content(inner, rd, zin, size) ==
    LET after(res, avail, rd2) ==
          IF res.status = "StreamEnd"
          THEN [status |-> IF Len(res.out) # size THEN "panic" ELSE "ok",
                content |-> res.out, rd |-> rd2]
          ELSE IF res.status = "Ok"
          THEN read_object_content(inner, rd2, zin \o SubSeq(avail, 1, res.nread), size)
          ELSE [status |-> "panic", content |-> <<>>, rd |-> rd2]
        inflated(filled, avail, res) == after(res, avail, consume(filled, res.nread))
        given(filled, avail) == inflated(filled, avail, decompress_vec(zin, avail))
        fill(filled) == given(filled, buffered(inner, filled))
    IN  fill(fill_buffer(inner, rd))

NoObject == [obj_type |-> "none", content |-> <<>>]

PackBase(obj) ==
    [kind |-> "Base", obj |-> obj, delta_offset |-> 0, base |-> <<>>, patch |-> <<>>]
PackOfsDelta(offset, content) ==
    [kind |-> "OfsDelta", obj |-> NoObject, delta_offset |-> offset, base |-> <<>>,
     patch |-> content]
PackRefDelta(base, content) ==
    [kind |-> "RefDelta", obj |-> NoObject, delta_offset |-> 0, base |-> base,
     patch |-> content]

TypeOfId(type_id) ==
    CASE type_id = 1 -> "commit"
      [] type_id = 2 -> "tree"
      [] type_id = 3 -> "blob"
      [] type_id = 4 -> "tag"

\* ObjectReader::read_object.  status: "ok", "err" (an io error, returned with
\* `?`) or "panic".  The type and size, then for an OfsDelta the back offset
\* and for a RefDelta the 20 bytes of the base, then the content.
read_object(inner, rd) ==
    LET failed(st, r) == [status |-> st, object |-> PackBase(NoObject), rd |-> r]
        with_content(type_id, value, bytes, c) ==
            IF c.status # "ok" THEN failed(c.status, c.rd)
            ELSE [status |-> "ok", rd |-> c.rd,
                  object |-> IF type_id = 6 THEN PackOfsDelta(value, c.content)
                             ELSE IF type_id = 7 THEN PackRefDelta(bytes, c.content)
                             ELSE PackBase([obj_type |-> TypeOfId(type_id),
                                            content |-> c.content])]
        with_base(type_id, size, b) ==
            IF ~b.ok THEN failed("err", b.rd)
            ELSE with_content(type_id, b.value, b.bytes,
                              read_object_content(inner, b.rd, <<>>, size))
        offset_base(o) == [ok |-> o.ok, value |-> o.value, bytes |-> <<>>, rd |-> o.rd]
        sha_base(r) == [ok |-> r.ok, value |-> 0, bytes |-> r.bytes, rd |-> r.rd]
        with_size(type_id, size) ==
            IF ~size.ok THEN failed("err", size.rd)
            ELSE IF type_id \notin {1, 2, 3, 4, 6, 7} THEN failed("panic", size.rd)
            ELSE with_base(type_id, size.value,
                     IF type_id = 6 THEN offset_base(read_offset(inner, size.rd))
                     ELSE IF type_id = 7
                          THEN sha_base(read_exact(inner, size.rd, ShaLen, <<>>))
                     ELSE [ok |-> TRUE, value |-> 0, bytes |-> <<>>, rd |-> size.rd])
        with_first(first) ==
            IF ~first.ok THEN failed("err", first.rd)
            ELSE with_size((first.byte \div 16) % 8,
                           read_size(inner, first.rd, first.byte, first.byte % 16, 4))
    IN  with_first(read_u8(inner, rd))

---------------------------------------------------------------------------
(* packfile/index.rs                                                       *)

MAGIC == <<255, 116, 79, 99>>
VERSION == 2
FanoutLen == 256

NoIndex == [fanout |-> <<>>, offsets |-> <<>>, shas |-> <<>>, checksums |-> <<>>,
            pack_sha |-> <<>>]

\* objects.sort_by(|a, b| a.sha().cmp(&b.sha())): a stable sort on the hex sha
RECURSIVE insert_sorted(_, _)
insert_sorted(sorted, e) ==
    IF sorted = <<>> THEN <<e>>
    ELSE IF cmp(to_hex(object_sha(e.obj)), to_hex(object_sha(sorted[Len(sorted)].obj))) >= 0
         THEN Append(sorted, e)
         ELSE Append(insert_sorted(SubSeq(sorted, 1, Len(sorted) - 1), e), sorted[Len(sorted)])

RECURSIVE sort_by_sha(_)
sort_by_sha(objects) ==
    IF objects = <<>> THEN <<>>
    ELSE insert_sorted(sort_by_sha(SubSeq(objects, 1, Len(objects) - 1)),
                       objects[Len(objects)])

\* The fanout loop of from_objects: every entry at or after sha[0] is incremented
RECURSIVE fanout_of(_, _)
fanout_of(sorted, n) ==
    IF n = 0 THEN [b \in 0..(FanoutLen - 1) |-> 0]
    ELSE LET prev  == fanout_of(sorted, n - 1)
             first == object_sha(sorted[n].obj)[1]
         IN  [b \in 0..(FanoutLen - 1) |-> IF b >= first THEN prev[b] + 1 ELSE prev[b]]

\* PackIndex::from_objects
from_objects(objects, pack_sha) ==
    LET sorted == sort_by_sha(objects)
    IN  [fanout    |-> fanout_of(sorted, Len(sorted)),
         offsets   |-> [i \in 1..Len(sorted) |-> as_u32(sorted[i].offset)],
         shas      |-> [i \in 1..Len(sorted) |-> object_sha(sorted[i].obj)],
         checksums |-> [i \in 1..Len(sorted) |-> sorted[i].crc],
         pack_sha  |-> pack_sha]

\* The fanout off-by-one: fanout[b] taken as the start of the slice
find_from_fanout_b(index, sha) ==
    LET fan   == sha[1]
        start == index.fanout[fan]
        end   == index.fanout[fan]
    IN  IF start > end \/ end > Len(index.shas)
        THEN {[ok |-> FALSE, found |-> None]}
        ELSE LET hits == {i \in (start + 1)..end : index.shas[i] = sha}
             IN  IF hits = {} THEN {[ok |-> TRUE, found |-> None]}
                 ELSE {[ok |-> TRUE, found |-> Some(index.offsets[i])] : i \in hits}

\* PackIndex::find.  The results binary_search_by may give: with several equal
\* shas in the slice any of them; a slice out of the table panics.
find(index, sha) ==
    LET fan   == sha[1]
        start == IF fan > 0 THEN index.fanout[fan - 1] ELSE 0
        end   == index.fanout[fan]
    IN  IF start > end \/ end > Len(index.shas)
        THEN {[ok |-> FALSE, found |-> None]}
        ELSE LET hits == {i \in (start + 1)..end : index.shas[i] = sha}
             IN  IF hits = {} THEN {[ok |-> TRUE, found |-> None]}
                 ELSE {[ok |-> TRUE, found |-> Some(index.offsets[i])] : i \in hits}

RECURSIVE concat_all(_)
concat_all(seqs) ==
    IF seqs = <<>> THEN <<>>
    ELSE IF Len(seqs) = 1 THEN seqs[1]
    ELSE LET mid == Len(seqs) \div 2
         IN  concat_all(SubSeq(seqs, 1, mid)) \o concat_all(SubSeq(seqs, mid + 1, Len(seqs)))

\* PackIndex::encode
index_encode(index) ==
    LET buf == MAGIC \o U32BE(VERSION)
               \o concat_all([b \in 1..FanoutLen |-> U32BE(index.fanout[b - 1])])
               \o concat_all(index.shas)
               \o concat_all([i \in 1..Len(index.checksums) |-> WideU32BE(index.checksums[i])])
               \o concat_all([i \in 1..Len(index.offsets) |-> WideU32BE(index.offsets[i])])
               \o from_hex(index.pack_sha)
    IN  buf \o sha1_hash(buf)

\* A parse that reads the checksums where the offsets are
index_parse_crc_from_offsets(content) ==
    LET fanoutAt == 8
        tableAt  == fanoutAt + 4 * FanoutLen
        size     == ReadU32(content, fanoutAt + 4 * (FanoutLen - 1))
        crcAt    == tableAt + ShaLen * size
        offAt    == crcAt + 4 * size
        packAt   == offAt + 4 * size
        idxAt    == packAt + ShaLen
    IN  IF Len(content) < idxAt + ShaLen THEN [ok |-> FALSE, index |-> NoIndex]
        ELSE [ok |-> TRUE,
              index |->
                [fanout    |-> [b \in 0..(FanoutLen - 1) |-> ReadU32(content, fanoutAt + 4 * b)],
                 offsets   |-> [i \in 1..size |-> ReadWideU32(content, offAt + 4 * (i - 1))],
                 shas      |-> [i \in 1..size |->
                                  Slice(content, tableAt + ShaLen * (i - 1), tableAt + ShaLen * i)],
                 checksums |-> [i \in 1..size |-> ReadWideU32(content, offAt + 4 * (i - 1))],
                 pack_sha  |-> to_hex(Slice(content, packAt, packAt + ShaLen))]]

\* PackIndex::parse: a short read is an Err, a failed assert_eq! a panic
index_parse(content) ==
    LET fanoutAt == 8
        tableAt  == fanoutAt + 4 * FanoutLen
        size     == ReadU32(content, fanoutAt + 4 * (FanoutLen - 1))
        crcAt    == tableAt + ShaLen * size
        offAt    == crcAt + 4 * size
        packAt   == offAt + 4 * size
        idxAt    == packAt + ShaLen
    IN  IF Len(content) < ShaLen \/ Len(content) < tableAt THEN [ok |-> FALSE, index |-> NoIndex]
        ELSE IF Slice(content, 0, 4) # MAGIC \/ ReadU32(content, 4) # VERSION
             THEN [ok |-> FALSE, index |-> NoIndex]
        ELSE IF Len(content) < idxAt + ShaLen THEN [ok |-> FALSE, index |-> NoIndex]
        ELSE IF to_hex(Slice(content, idxAt, idxAt + ShaLen))
                    # sha1_hash_hex(Slice(content, 0, Len(content) - ShaLen))
             THEN [ok |-> FALSE, index |-> NoIndex]
        ELSE [ok |-> TRUE,
              index |->
                [fanout    |-> [b \in 0..(FanoutLen - 1) |-> ReadU32(content, fanoutAt + 4 * b)],
                 offsets   |-> [i \in 1..size |-> ReadWideU32(content, offAt + 4 * (i - 1))],
                 shas      |-> [i \in 1..size |->
                                  Slice(content, tableAt + ShaLen * (i - 1), tableAt + ShaLen * i)],
                 checksums |-> [i \in 1..size |-> ReadWideU32(content, crcAt + 4 * (i - 1))],
                 pack_sha  |-> to_hex(Slice(content, packAt, packAt + ShaLen))]]

(* The index as a state machine: from_objects, find, encode, the .idx file *)
(* written by PackFile::write and read back by PackIndex::open.            *)

MaxIdxObjects == 3
MaxFileObjects == 2

\* Objects whose shas begin with the bytes 255, 0, 0, 0 and 1.
IdxObjects == {Blob(<<15>>), Blob(<<16>>), Blob(<<14, 1>>), Blob(<<2, 13>>), Blob(<<17>>)}

\* An object that is in no list.
AbsentObject == Blob(<<18>>)

QueryShas == {object_sha(o) : o \in IdxObjects \cup {AbsentObject}}

\* Entry k of a list lies EntryStride bytes after entry k - 1; the first offset
\* is just after the pack header, or just below 2^32 (a pack beyond 4 GiB).
EntryStride == 20
FirstOffsets == {Wide(12), [hi |-> Half - 1, lo |-> Half - 2 * EntryStride]}

PackShaOfIndex == sha1_hash_hex(<<80, 65, 67, 75>>)

IdxLists(n, firsts) ==
    {[k \in 1..Len(objs) |-> [offset |-> WideAdd(first, EntryStride * (k - 1)),
                              crc |-> Wide(1000 + k), obj |-> objs[k]]] :
        objs \in SeqsUpTo(IdxObjects, n), first \in firsts}

\* What the environment does to the .idx file before it is opened: nothing, or
\* one byte changed, a byte appended, the last byte dropped, or four bytes
\* inserted before the trailing hash; with or without the trailing hash
\* recomputed.  The byte changed lies in the magic, the version, fanout[254],
\* fanout[255], the first sha, the pack hash or the trailing hash.
TamperKinds == {"none", "magic", "version", "fanout254", "fanout255", "sha", "packsha",
                "trailer", "append", "truncate", "insert"}
TamperPlans == {[kind |-> k, reseal |-> r] : k \in TamperKinds, r \in BOOLEAN}

TamperPosition(kind, file) ==
    CASE kind = "magic"     -> 1
      [] kind = "version"   -> 8
      [] kind = "fanout254" -> 8 + 4 * (FanoutLen - 1)
      [] kind = "fanout255" -> 8 + 4 * FanoutLen
      [] kind = "sha"       -> Min(8 + 4 * FanoutLen + 1, Len(file))
      [] kind = "packsha"   -> Len(file) - ShaLen
      [] kind = "trailer"   -> Len(file)

Reseal(file) ==
    LET body == SubSeq(file, 1, Len(file) - ShaLen) IN body \o sha1_hash(body)

Tampered(plan, file) ==
    LET changed ==
          CASE plan.kind = "none"     -> file
            [] plan.kind = "append"   -> Append(file, 0)
            [] plan.kind = "truncate" -> SubSeq(file, 1, Len(file) - 1)
            [] plan.kind = "insert"   ->
                   SubSeq(file, 1, Len(file) - ShaLen) \o <<0, 0, 0, 0>>
                       \o SubSeq(file, Len(file) - ShaLen + 1, Len(file))
            [] OTHER ->
                   LET p == TamperPosition(plan.kind, file)
                   IN  [file EXCEPT ![p] = (file[p] + 1) % 256]
    IN  IF plan.reseal THEN Reseal(changed) ELSE changed

InitIndexVars(lists, plans) ==
    /\ i_objects \in lists
    /\ i_tamper \in plans
    /\ i_index = <<>>
    /\ i_file = <<>>
    /\ i_source = <<>>
    /\ i_encoded = <<>>
    /\ i_query = <<>>
    /\ i_found = None
    /\ i_pc = "start"

IndexFromObjects ==
    /\ i_pc = "start"
    /\ i_index' = from_objects(i_objects, PackShaOfIndex)
    /\ i_pc' = "ready"
    /\ UNCHANGED <<i_objects, i_file, i_source, i_encoded, i_query, i_found, i_tamper>>
    /\ UNCHANGED notIndex

FindAt(pc) ==
    /\ i_pc = pc
    /\ \E sha \in QueryShas : \E r \in find(i_index, sha) :
        /\ i_query' = sha
        /\ i_found' = r.found
        /\ i_pc' = IF r.ok THEN "found" ELSE "panic"
    /\ UNCHANGED <<i_objects, i_index, i_file, i_source, i_encoded, i_tamper>>
    /\ UNCHANGED notIndex

\* find on the index from_objects built, and on an index that was parsed
IndexFind == FindAt("ready")
IndexFindParsed == FindAt("opened")

\* PackFile::write: the encoded index goes to the .idx file
IndexWrite ==
    /\ i_pc = "ready"
    /\ i_file' = index_encode(i_index)
    /\ i_pc' = "written"
    /\ UNCHANGED <<i_objects, i_index, i_source, i_encoded, i_query, i_found, i_tamper>>
    /\ UNCHANGED notIndex

\* The environment: the .idx file is any file on disk
IndexTamper ==
    /\ i_pc = "written"
    /\ i_file' = Tampered(i_tamper, i_file)
    /\ i_pc' = "on disk"
    /\ UNCHANGED <<i_objects, i_index, i_source, i_encoded, i_query, i_found, i_tamper>>
    /\ UNCHANGED notIndex

\* PackIndex::open: the file is read and parsed
IndexOpen ==
    /\ i_pc = "on disk"
    /\ LET r == index_parse(i_file)
       IN  IF r.ok
           THEN /\ i_index' = r.index
                /\ i_source' = i_file
                /\ i_pc' = "opened"
           ELSE /\ i_pc' = "panic"
                /\ UNCHANGED <<i_index, i_source>>
    /\ UNCHANGED <<i_objects, i_file, i_encoded, i_query, i_found, i_tamper>>
    /\ UNCHANGED notIndex

\* PackIndex::encode of an index that was parsed
IndexEncode ==
    /\ i_pc = "opened"
    /\ i_encoded' = index_encode(i_index)
    /\ i_pc' = "encoded"
    /\ UNCHANGED <<i_objects, i_index, i_file, i_source, i_query, i_found, i_tamper>>
    /\ UNCHANGED notIndex

\* from_objects and find
InitIndex ==
    /\ StoreIdle
    /\ DeltaIdle
    /\ PackIdle
    /\ InitIndexVars(IdxLists(MaxIdxObjects, FirstOffsets), {[kind |-> "none", reseal |-> FALSE]})
NextIndex == IndexFromObjects \/ IndexFind
SpecIndex == InitIndex /\ [][NextIndex]_vars

\* the .idx file: write, open, encode
InitIndexFile ==
    /\ StoreIdle
    /\ DeltaIdle
    /\ PackIdle
    /\ InitIndexVars(IdxLists(MaxFileObjects, {Wide(12)}), TamperPlans)
NextIndexFile ==
    IndexFromObjects \/ IndexWrite \/ IndexTamper \/ IndexOpen \/ IndexEncode \/ IndexFindParsed
SpecIndexFile == InitIndexFile /\ [][NextIndexFile]_vars

\* The entries of the list given to from_objects whose object has the sha asked for
EntriesWithQuery == {k \in 1..Len(i_objects) : object_sha(i_objects[k].obj) = i_query}

FindAnswersQuery ==
    /\ i_pc # "panic"
    /\ i_pc = "found" =>
          IF EntriesWithQuery = {} THEN i_found = None
          ELSE /\ i_found.some
               /\ \E k \in EntriesWithQuery : i_found.offset = i_objects[k].offset

OffsetsFitU32 == \A k \in 1..Len(i_objects) : i_objects[k].offset.hi < Half

C8_ParseEncodeRoundTrip == i_pc = "encoded" => i_encoded = i_source

\* A file whose fanout was changed on disk (and its hash recomputed) is parsed
\* and encoded again.
C8_Witness ==
    /\ i_pc = "encoded"
    /\ i_tamper = [kind |-> "fanout254", reseal |-> TRUE]
    /\ Len(i_objects) = 2

---------------------------------------------------------------------------
(* packfile/mod.rs: PackObject, Objects, PackFile *)

MAGIC_HEADER == <<80, 65, 67, 75>>
HEADER_LENGTH == 12

EmptyMap == [k \in {} |-> 0]
map_insert(m, k, v) == [x \in DOMAIN m \cup {k} |-> IF x = k THEN v ELSE m[x]]

\* GitObject::patch: the patched content keeps the type; a failing patch panics
object_patch(obj, delta) ==
    LET of(r) == [ok |-> r.ok, obj |-> [obj_type |-> obj.obj_type, content |-> r.out]]
    IN  of(patch(obj.content, delta))

\* PackObject::crc32
pack_object_crc32(object) ==
    crc32_checksum(IF object.kind = "Base" THEN object.obj.content ELSE object.patch)

NoItem == [offset |-> 0, crc |-> Wide(0), obj |-> NoObject]

\* Objects::new
Objects_new(size) ==
    [reader |-> ObjectReader_new, remaining |-> size, base_objects |-> EmptyMap,
     base_offsets |-> EmptyMap, ref_deltas |-> <<>>, ofs_deltas |-> <<>>,
     resolve |-> FALSE]

reverse(s) == [i \in 1..Len(s) |-> s[Len(s) + 1 - i]]
pop(s) == SubSeq(s, 1, Len(s) - 1)

\* base_offsets.insert(offset, sha); base_objects.insert(sha, object)
remember(it, offset, obj) ==
    LET insert(sha) == [it EXCEPT !.base_offsets = map_insert(@, offset, sha),
                                  !.base_objects = map_insert(@, sha, obj)]
    IN  insert(to_hex(object_sha(obj)))

\* The item a resolved delta yields, and the iterator that knows its object
resolved(it, top, patched) ==
    IF ~patched.ok THEN [status |-> "panic", item |-> NoItem, it |-> it]
    ELSE [status |-> "some",
          item |-> [offset |-> top.offset, crc |-> top.crc, obj |-> patched.obj],
          it |-> remember(it, top.offset, patched.obj)]

\* A RefDelta whose base is unknown is dropped and the iteration goes on
resolve_ref_delta_skipping(it) ==
    IF it.ref_deltas = <<>> THEN [status |-> "none", item |-> NoItem, it |-> it]
    ELSE LET on(top, it1, sha) ==
               IF sha \notin DOMAIN it.base_objects
               THEN [status |-> "none", item |-> NoItem, it |-> it1]
               ELSE resolved(it1, top, object_patch(it.base_objects[sha], top.object.patch))
             popped(top) == on(top, [it EXCEPT !.ref_deltas = pop(@)], to_hex(top.object.base))
         IN  popped(it.ref_deltas[Len(it.ref_deltas)])

\* Objects::resolve_ref_delta
resolve_ref_delta(it) ==
    IF it.ref_deltas = <<>> THEN [status |-> "none", item |-> NoItem, it |-> it]
    ELSE LET on(top, it1, sha) ==
               IF sha \notin DOMAIN it.base_objects
               THEN [status |-> "panic", item |-> NoItem, it |-> it1]
               ELSE resolved(it1, top, object_patch(it.base_objects[sha], top.object.patch))
             popped(top) == on(top, [it EXCEPT !.ref_deltas = pop(@)], to_hex(top.object.base))
         IN  popped(it.ref_deltas[Len(it.ref_deltas)])

\* Objects::resolve_ofs_delta
resolve_ofs_delta(it) ==
    IF it.ofs_deltas = <<>> THEN [status |-> "none", item |-> NoItem, it |-> it]
    ELSE LET on(top, it1, base) ==
               IF base \notin DOMAIN it.base_offsets
                  \/ it.base_offsets[base] \notin DOMAIN it.base_objects
               THEN [status |-> "panic", item |-> NoItem, it |-> it1]
               ELSE resolved(it1, top,
                             object_patch(it.base_objects[it.base_offsets[base]],
                                          top.object.patch))
             popped(top) == on(top, [it EXCEPT !.ofs_deltas = pop(@)],
                               top.offset - top.object.delta_offset)
         IN  popped(it.ofs_deltas[Len(it.ofs_deltas)])

\* The while loop of Objects::next: entries are read until a base object is
\* met, the deltas on the way are set aside.
RECURSIVE read_bases(_, _)
read_bases(inner, it) ==
    IF it.remaining = 0 THEN [status |-> "none", item |-> NoItem, it |-> it]
    ELSE LET on(offset, r, it1, checksum) ==
               IF r.status # "ok" THEN [status |-> "panic", item |-> NoItem, it |-> it1]
               ELSE IF r.object.kind = "OfsDelta"
               THEN read_bases(inner, [it1 EXCEPT !.ofs_deltas =
                        Append(@, [offset |-> offset, crc |-> checksum, object |-> r.object])])
               ELSE IF r.object.kind = "RefDelta"
               THEN read_bases(inner, [it1 EXCEPT !.ref_deltas =
                        Append(@, [offset |-> offset, crc |-> checksum, object |-> r.object])])
               ELSE [status |-> "some",
                     item |-> [offset |-> offset, crc |-> checksum, obj |-> r.object.obj],
                     it |-> remember(it1, offset, r.object.obj)]
             read(offset, r) ==
               on(offset, r, [it EXCEPT !.remaining = @ - 1, !.reader = r.rd],
                  IF r.status = "ok" THEN pack_object_crc32(r.object) ELSE Wide(0))
         IN  read(it.reader.consumed_bytes + HEADER_LENGTH, read_object(inner, it.reader))

\* Objects::next without the reversal of the two buffers
objects_next_unreversed(inner, it) ==
    LET resolve(ref) == IF ref.status = "none" THEN resolve_ofs_delta(ref.it) ELSE ref
        after(bases) ==
          IF bases.status # "none" THEN bases
          ELSE resolve(resolve_ref_delta(
                   IF bases.it.resolve THEN bases.it
                   ELSE [bases.it EXCEPT !.resolve = TRUE]))
    IN  after(read_bases(inner, it))

\* Objects::next
objects_next(inner, it) ==
    LET resolve(ref) == IF ref.status = "none" THEN resolve_ofs_delta(ref.it) ELSE ref
        after(bases) ==
          IF bases.status # "none" THEN bases
          ELSE resolve(resolve_ref_delta(
                   IF bases.it.resolve THEN bases.it
                   ELSE [bases.it EXCEPT !.resolve = TRUE,
                                         !.ref_deltas = reverse(@),
                                         !.ofs_deltas = reverse(@)]))
    IN  after(read_bases(inner, it))

\* The PackFile before parse_with_index has built it
NoPack == [version |-> Wide(0), num_objects |-> Wide(0), encoded_objects |-> <<>>,
           sha |-> <<>>, index |-> NoIndex]

\* parse_with_index without the assert_eq! on the trailing hash
parse_header_unchecked(contents) ==
    IF Len(contents) < ShaLen THEN [status |-> "panic", pack |-> NoPack]
    ELSE IF Len(contents) < HEADER_LENGTH THEN [status |-> "err", pack |-> NoPack]
    ELSE IF Slice(contents, 0, 4) # MAGIC_HEADER THEN [status |-> "panic", pack |-> NoPack]
    ELSE IF Len(contents) - HEADER_LENGTH < ShaLen THEN [status |-> "panic", pack |-> NoPack]
    ELSE [status |-> "ok",
          pack |-> [version         |-> ReadWideU32(contents, 4),
                    num_objects     |-> ReadWideU32(contents, 8),
                    encoded_objects |-> Slice(contents, HEADER_LENGTH, Len(contents) - ShaLen),
                    sha             |-> sha1_hash_hex(Slice(contents, 0, Len(contents) - ShaLen)),
                    index           |-> NoIndex]]

\* parse_with_index up to the creation of the iterator: the hash of all but
\* the last 20 bytes, the three header words, the magic and the trailing hash.
parse_header(contents) ==
    IF Len(contents) < ShaLen THEN [status |-> "panic", pack |-> NoPack]
    ELSE IF Len(contents) < HEADER_LENGTH THEN [status |-> "err", pack |-> NoPack]
    ELSE IF Slice(contents, 0, 4) # MAGIC_HEADER THEN [status |-> "panic", pack |-> NoPack]
    ELSE IF Len(contents) - HEADER_LENGTH < ShaLen THEN [status |-> "panic", pack |-> NoPack]
    ELSE LET sha_computed == sha1_hash_hex(Slice(contents, 0, Len(contents) - ShaLen))
             checksum     == to_hex(Slice(contents, Len(contents) - ShaLen, Len(contents)))
         IN  IF checksum # sha_computed THEN [status |-> "panic", pack |-> NoPack]
             ELSE [status |-> "ok",
                   pack |-> [version         |-> ReadWideU32(contents, 4),
                             num_objects     |-> ReadWideU32(contents, 8),
                             encoded_objects |-> Slice(contents, HEADER_LENGTH,
                                                       Len(contents) - ShaLen),
                             sha             |-> sha_computed,
                             index           |-> NoIndex]]

\* encode() with the version the writer itself produces
encode_version_2(pack) ==
    LET encoded == MAGIC_HEADER \o U32BE(2) \o WideU32BE(as_u32(pack.num_objects))
                       \o pack.encoded_objects
    IN  encoded \o sha1_hash(encoded)

\* PackFile::encode
encode(pack) ==
    LET encoded == MAGIC_HEADER \o WideU32BE(pack.version)
                       \o WideU32BE(as_u32(pack.num_objects)) \o pack.encoded_objects
    IN  encoded \o sha1_hash(encoded)

\* PackFile::read_at_offset
read_at_offset(pack, offset) ==
    IF offset < HEADER_LENGTH \/ offset - HEADER_LENGTH > Len(pack.encoded_objects)
    THEN [status |-> "panic", object |-> PackBase(NoObject)]
    ELSE LET got(r) == [status |-> r.status, object |-> r.object]
         IN  got(read_object(Slice(pack.encoded_objects, offset - HEADER_LENGTH,
                                   Len(pack.encoded_objects)),
                             ObjectReader_new))

\* The results of the lookups: an error or panic, Ok(None), or Ok(Some(..))
Failed(status) == [status |-> status, some |-> FALSE, obj |-> NoObject]
OkNone == [status |-> "ok", some |-> FALSE, obj |-> NoObject]
OkSome(obj) == [status |-> "ok", some |-> TRUE, obj |-> obj]

\* The second loop of find_by_offset: the patches are popped off the end
RECURSIVE apply_patches(_, _)
apply_patches(obj, patches) ==
    IF patches = <<>> THEN OkSome(obj)
    ELSE LET on(patched) ==
               IF ~patched.ok THEN Failed("panic")
               ELSE apply_patches(patched.obj, pop(patches))
         IN  on(object_patch(obj, patches[Len(patches)]))

\* How many chain steps of one lookup are followed; a lookup that needs more
\* is reported as not returning.
MaxChain == 6

\* The first loop of find_by_offset, from an entry that was read at `offset`.
\* An OfsDelta moves `offset` back; a RefDelta goes through the index (the
\* result of find_by_sha_unresolved, any of the entries find may give) and
\* leaves `offset` as it is.
RECURSIVE follow_chain(_, _, _, _, _)
follow_chain(pack, object, offset, patches, fuel) ==
    IF object.kind = "Base" THEN {apply_patches(object.obj, patches)}
    ELSE IF fuel = 0 THEN {Failed("hang")}
    ELSE LET on(next, at) ==
               IF next.status # "ok" THEN {Failed(next.status)}
               ELSE follow_chain(pack, next.object, at, Append(patches, object.patch),
                                 fuel - 1)
         IN  IF object.kind = "OfsDelta"
             THEN IF object.delta_offset > offset THEN {Failed("panic")}
                  ELSE UNION { on(read_at_offset(pack, at), at)
                               : at \in {offset - object.delta_offset} }
             ELSE UNION { IF ~f.ok THEN {Failed("panic")}
                          ELSE IF ~f.found.some THEN {OkNone}
                          ELSE on(read_at_offset(pack, as_usize(f.found.offset)), offset)
                          : f \in find(pack.index, from_hex(to_hex(object.base))) }

\* PackFile::find_by_offset
find_by_offset(pack, offset) ==
    LET on(first) ==
          IF first.status # "ok" THEN {Failed(first.status)}
          ELSE follow_chain(pack, first.object, offset, <<>>, MaxChain)
    IN  on(read_at_offset(pack, offset))

\* PackFile::find_by_sha, for a sha of 40 hex digits
find_by_sha(pack, sha) ==
    UNION { IF ~f.ok THEN {Failed("panic")}
            ELSE IF ~f.found.some THEN {OkNone}
            ELSE find_by_offset(pack, as_usize(f.found.offset))
            : f \in find(pack.index, from_hex(sha)) }

---------------------------------------------------------------------------
(* The packs the machine is run on, written the way git writes them.       *)

MaxEntries == 4
MaxFileEntries == 2

\* Contents of the blobs stored whole, and of the blobs RefDeltas name as
\* their base; no entry of any pack has the content <<9>>.
BaseContents == {<<1>>, <<1, 2>>}
RefContents == {<<1>>, <<1, 2>>, <<9>>}
AbsentContent == <<9>>

\* Every delta of the packs copies its whole base and appends this byte
Appended == 2

LayoutBase(c) == [kind |-> "Base", content |-> c, base |-> 0]
LayoutOfs(j)  == [kind |-> "Ofs", content |-> <<>>, base |-> j]
LayoutRef(c)  == [kind |-> "Ref", content |-> c, base |-> 0]
\* A RefDelta whose delta copies its base unchanged, and an OfsDelta whose
\* back offset is 0: entries git does not write, but a pack file can hold
LayoutSame(c) == [kind |-> "Same", content |-> c, base |-> 0]
LayoutSelf    == [kind |-> "Self", content |-> <<>>, base |-> 0]

EntryChoices(i) ==
    {LayoutBase(c) : c \in BaseContents} \cup {LayoutOfs(j) : j \in 1..(i - 1)}
        \cup {LayoutRef(c) : c \in RefContents}

RECURSIVE Layouts(_)
Layouts(n) ==
    IF n = 0 THEN {<<>>}
    ELSE LET shorter == Layouts(n - 1)
         IN  shorter \cup {Append(l, e) : l \in {x \in shorter : Len(x) = n - 1},
                                          e \in EntryChoices(n)}

\* The content of the object entry i stands for
RECURSIVE Resolved(_, _)
Resolved(layout, i) ==
    CASE layout[i].kind = "Base" -> layout[i].content
      [] layout[i].kind = "Ofs"  -> Append(Resolved(layout, layout[i].base), Appended)
      [] layout[i].kind = "Ref"  -> Append(layout[i].content, Appended)
      [] layout[i].kind = "Same" -> layout[i].content
      [] layout[i].kind = "Self" -> AbsentContent

\* The delta that turns a base of n bytes into the base followed by Appended:
\* source length, target length, copy(0, n), insert(1 byte)
AppendPatch(n) == <<n, n + 1, 144, n, 1, Appended>>

\* The delta that copies a base of n bytes unchanged: copy(0, n)
CopyPatch(n) == <<n, n, 144, n>>

RECURSIVE varint7(_)
varint7(n) == IF n < 128 THEN <<n>> ELSE <<128 + (n % 128)>> \o varint7(n \div 128)

\* The type and size that read_object decodes
entry_header(type_id, size) ==
    IF size < 16 THEN <<type_id * 16 + size>>
    ELSE <<128 + type_id * 16 + (size % 16)>> \o varint7(size \div 16)

\* The back offset that read_offset decodes
RECURSIVE offset_more(_, _)
offset_more(v, acc) ==
    IF v = 0 THEN acc
    ELSE offset_more((v - 1) \div 128, <<128 + ((v - 1) % 128)>> \o acc)

offset_bytes(v) == offset_more(v \div 128, <<v % 128>>)

RECURSIVE WriteEntries(_, _, _, _)
WriteEntries(layout, i, bytes, offsets) ==
    IF i > Len(layout) THEN [bytes |-> bytes, offsets |-> offsets]
    ELSE LET at == HEADER_LENGTH + Len(bytes)
             e  == layout[i]
             entry ==
               CASE e.kind = "Base" ->
                      entry_header(3, Len(e.content)) \o deflate_stored(e.content)
                 [] e.kind = "Ofs" ->
                      LET delta == AppendPatch(Len(Resolved(layout, e.base)))
                      IN  entry_header(6, Len(delta)) \o offset_bytes(at - offsets[e.base])
                              \o deflate_stored(delta)
                 [] e.kind = "Ref" ->
                      LET delta == AppendPatch(Len(e.content))
                      IN  entry_header(7, Len(delta)) \o object_sha(Blob(e.content))
                              \o deflate_stored(delta)
                 [] e.kind = "Same" ->
                      LET delta == CopyPatch(Len(e.content))
                      IN  entry_header(7, Len(delta)) \o object_sha(Blob(e.content))
                              \o deflate_stored(delta)
                 [] e.kind = "Self" ->
                      LET delta == AppendPatch(1)
                      IN  entry_header(6, Len(delta)) \o offset_bytes(0)
                              \o deflate_stored(delta)
         IN  WriteEntries(layout, i + 1, bytes \o entry, Append(offsets, at))

\* The offset of every entry, and the offset just after the last
EntryOffsets(layout) ==
    LET w == WriteEntries(layout, 1, <<>>, <<>>)
    IN  Append(w.offsets, HEADER_LENGTH + Len(w.bytes))

WritePack(layout) ==
    LET body == MAGIC_HEADER \o U32BE(2) \o U32BE(Len(layout))
                    \o WriteEntries(layout, 1, <<>>, <<>>).bytes
    IN  body \o sha1_hash(body)

\* What happens to the .pack file before it is parsed: nothing, or one bit
\* flipped in the magic, the version, the entry count, the first byte after
\* the header or the trailing hash, a byte appended, the last byte dropped, or
\* four bytes inserted before the trailing hash; with or without the trailing
\* hash recomputed.
PackTamperKinds == {"none", "magic", "version", "count", "entry", "trailer", "append",
                    "truncate", "insert"}
PackTamperPlans == {[kind |-> k, reseal |-> r] : k \in PackTamperKinds, r \in BOOLEAN}

PackTamperPosition(kind, file) ==
    CASE kind = "magic"   -> 1
      [] kind = "version" -> 8
      [] kind = "count"   -> HEADER_LENGTH
      [] kind = "entry"   -> HEADER_LENGTH + 1
      [] kind = "trailer" -> Len(file)

FlipBit(b) == IF b % 2 = 0 THEN b + 1 ELSE b - 1

PackTampered(plan, file) ==
    LET changed ==
          CASE plan.kind = "none"     -> file
            [] plan.kind = "append"   -> Append(file, 0)
            [] plan.kind = "truncate" -> SubSeq(file, 1, Len(file) - 1)
            [] plan.kind = "insert"   ->
                   SubSeq(file, 1, Len(file) - ShaLen) \o <<0, 0, 0, 0>>
                       \o SubSeq(file, Len(file) - ShaLen + 1, Len(file))
            [] OTHER ->
                   LET at == PackTamperPosition(plan.kind, file)
                   IN  [file EXCEPT ![at] = FlipBit(file[at])]
    IN  IF plan.reseal THEN Reseal(changed) ELSE changed

\* The shas find_by_sha is asked for: those of the objects the entries stand
\* for, and one of an object that is in no pack.
PackQueries(layout) ==
    {to_hex(object_sha(Blob(Resolved(layout, i)))) : i \in 1..Len(layout)}
        \cup {to_hex(object_sha(Blob(AbsentContent)))}

---------------------------------------------------------------------------
(* The pack as a state machine *)

InitPackVars(layouts, plans) ==
    /\ p_layout \in layouts
    /\ p_tamper \in plans
    /\ p_file = PackTampered(p_tamper, WritePack(p_layout))
    /\ p_iter = <<>>
    /\ p_objects = <<>>
    /\ p_pack = <<>>
    /\ p_query = <<>>
    /\ p_found = <<>>
    /\ p_encoded = <<>>
    /\ p_pc = "closed"

\* PackFile::parse, up to Objects::new
PackParse ==
    /\ p_pc = "closed"
    /\ \E h \in {parse_header(p_file)} :
          IF h.status = "ok"
          THEN /\ p_pack' = h.pack
               /\ p_iter' = Objects_new(as_usize(h.pack.num_objects))
               /\ p_pc' = "collecting"
          ELSE /\ p_pc' = "panic"
               /\ UNCHANGED <<p_pack, p_iter>>
    /\ UNCHANGED <<p_layout, p_tamper, p_file, p_objects, p_query, p_found, p_encoded>>
    /\ UNCHANGED notPack

\* One call of Objects::next by collect().  The call that returns None ends
\* the collection: the index is built and the PackFile is returned.
ObjectsNext ==
    /\ p_pc = "collecting"
    /\ \E r \in {objects_next(p_pack.encoded_objects, p_iter)} :
          /\ p_iter' = r.it
          /\ CASE r.status = "some" ->
                    /\ p_objects' = Append(p_objects, r.item)
                    /\ UNCHANGED <<p_pack, p_pc>>
               [] r.status = "none" ->
                    /\ p_pack' = [p_pack EXCEPT !.index =
                          from_objects([k \in 1..Len(p_objects) |->
                                           [offset |-> Wide(p_objects[k].offset),
                                            crc    |-> p_objects[k].crc,
                                            obj    |-> p_objects[k].obj]],
                                       p_pack.sha)]
                    /\ p_pc' = "open"
                    /\ UNCHANGED p_objects
               [] r.status = "panic" ->
                    /\ p_pc' = "panic"
                    /\ UNCHANGED <<p_pack, p_objects>>
    /\ UNCHANGED <<p_layout, p_tamper, p_file, p_query, p_found, p_encoded>>
    /\ UNCHANGED notPack

\* PackFile::find_by_sha
PackFindBySha ==
    /\ p_pc = "open"
    /\ \E sha \in PackQueries(p_layout) : \E r \in find_by_sha(p_pack, sha) :
          /\ p_query' = sha
          /\ p_found' = r
    /\ p_pc' = "found"
    /\ UNCHANGED <<p_layout, p_tamper, p_file, p_iter, p_objects, p_pack, p_encoded>>
    /\ UNCHANGED notPack

\* PackFile::encode
PackEncode ==
    /\ p_pc = "open"
    /\ p_encoded' = encode(p_pack)
    /\ p_pc' = "encoded"
    /\ UNCHANGED <<p_layout, p_tamper, p_file, p_iter, p_objects, p_pack, p_query, p_found>>
    /\ UNCHANGED notPack

\* parse and find_by_sha, on the packs as they were written
InitPack ==
    /\ StoreIdle
    /\ DeltaIdle
    /\ IndexIdle
    /\ InitPackVars(Layouts(MaxEntries), {[kind |-> "none", reseal |-> FALSE]})
NextPack == PackParse \/ ObjectsNext \/ PackFindBySha
SpecPack == InitPack /\ [][NextPack]_vars

\* parse and encode, on pack files of any origin
InitPackFile ==
    /\ StoreIdle
    /\ DeltaIdle
    /\ IndexIdle
    /\ InitPackVars(Layouts(MaxFileEntries), PackTamperPlans)
NextPackFile == PackParse \/ ObjectsNext \/ PackEncode
SpecPackFile == InitPackFile /\ [][NextPackFile]_vars

---------------------------------------------------------------------------
(* Properties of the pack *)

\* The entries of the pack that are stored as deltas and stand for the object
\* whose sha was asked for
DeltaEntriesWithQuery ==
    {i \in 1..Len(p_layout) :
        /\ p_layout[i].kind # "Base"
        /\ to_hex(object_sha(Blob(Resolved(p_layout, i)))) = p_query}

\* C1: for a pack opened with its index, find_by_sha(H) of an object stored as
\* a delta returns the object obtained by applying the patches of its chain to
\* the chain's base, the patch nearest the base first, also for chains that
\* mix OfsDelta and RefDelta steps.
C1_FindBySha_ResolvesChain ==
    p_pc = "found" =>
        \A i \in DeltaEntriesWithQuery : p_found = OkSome(Blob(Resolved(p_layout, i)))

\* C2: for every byte sequence on which PackFile parsing succeeds, encode() of
\* the parsed pack returns exactly that byte sequence.
C2_EncodeReproducesFile == p_pc = "encoded" => p_encoded = p_file

\* A parsed file that git did not write as it is (its version word was changed
\* and the trailer recomputed) and that holds a delta has been encoded.
C2_Witness ==
    /\ p_pc = "encoded"
    /\ p_tamper = [kind |-> "version", reseal |-> TRUE]
    /\ Len(p_layout) = 2
    /\ p_layout[2].kind = "Ofs"
    /\ Len(p_objects) = 2

TrailerMatches ==
    /\ Len(p_file) >= ShaLen
    /\ Slice(p_file, Len(p_file) - ShaLen, Len(p_file))
          = sha1_hash(Slice(p_file, 0, Len(p_file) - ShaLen))

\* C3: opening a pack whose last 20 bytes differ from the hash of all bytes
\* before them fails: no PackFile is returned, the iterator is not even made.
C3_TrailerMismatchRejected ==
    ~TrailerMatches => p_pc \in {"closed", "panic"}

\* A pack of two entries with one bit of its trailer flipped has been rejected.
C3_Witness ==
    /\ p_pc = "panic"
    /\ p_tamper = [kind |-> "trailer", reseal |-> FALSE]
    /\ Len(p_layout) = 2
    /\ ~TrailerMatches

\* The bytes of the entry that starts at `offset`: up to the start of the next
EntryBytesAt(offset) ==
    LET offsets == EntryOffsets(p_layout)
        i == CHOOSE k \in 1..Len(p_layout) : offsets[k] = offset
    IN  Slice(p_file, offsets[i], offsets[i + 1])

\* C9: the checksum that pack iteration records for each entry, and that the
\* index built from the pack stores, is the CRC-32 of the entry's compressed
\* bytes in the pack, from the entry's start to the start of the next entry.
C9_ChecksumOfCompressedBytes ==
    /\ \A k \in 1..Len(p_objects) :
          p_objects[k].crc = crc32_checksum(EntryBytesAt(p_objects[k].offset))
    /\ p_pc = "open" =>
          \A k \in 1..Len(p_pack.index.offsets) :
              p_pack.index.checksums[k]
                  = crc32_checksum(EntryBytesAt(as_usize(p_pack.index.offsets[k])))

\* Entry i is a RefDelta whose base is the object of no entry of the pack
MissingBase(i) ==
    /\ p_layout[i].kind = "Ref"
    /\ \A j \in 1..Len(p_layout) : Resolved(p_layout, j) # p_layout[i].content

\* The chain of entry i ends in a RefDelta whose base is missing
RECURSIVE ChainMissesBase(_)
ChainMissesBase(i) ==
    \/ MissingBase(i)
    \/ p_layout[i].kind = "Ofs" /\ ChainMissesBase(p_layout[i].base)

EntryAt(offset) ==
    CHOOSE k \in 1..Len(p_layout) : EntryOffsets(p_layout)[k] = offset

---------------------------------------------------------------------------
(* store/object.rs and Repo::read_object                                   *)

\* The 0-based position of the first byte c of s, or Len(s) when there is none
RECURSIVE position(_, _, _)
position(s, c, i) ==
    IF i >= Len(s) THEN Len(s)
    ELSE IF s[i + 1] = c THEN i
    ELSE position(s, c, i + 1)

\* How many bytes c are in s
count_of(s, c) == Cardinality({i \in 1..Len(s) : s[i] = c})

\* str::from_utf8 succeeds: the check of core::str::validations
RECURSIVE is_utf8(_, _)
is_utf8(s, i) ==
    IF i > Len(s) THEN TRUE
    ELSE LET b == s[i]
             cont(k) == k <= Len(s) /\ s[k] >= 128 /\ s[k] <= 191
             within(k, lo, hi) == k <= Len(s) /\ s[k] >= lo /\ s[k] <= hi
         IN  IF b < 128 THEN is_utf8(s, i + 1)
             ELSE IF b >= 194 /\ b <= 223 THEN cont(i + 1) /\ is_utf8(s, i + 2)
             ELSE IF b >= 224 /\ b <= 239
             THEN /\ CASE b = 224 -> within(i + 1, 160, 191)
                       [] b = 237 -> within(i + 1, 128, 159)
                       [] OTHER   -> cont(i + 1)
                  /\ cont(i + 2)
                  /\ is_utf8(s, i + 3)
             ELSE IF b >= 240 /\ b <= 244
             THEN /\ CASE b = 240 -> within(i + 1, 144, 191)
                       [] b = 244 -> within(i + 1, 128, 143)
                       [] OTHER   -> cont(i + 1)
                  /\ cont(i + 2)
                  /\ cont(i + 3)
                  /\ is_utf8(s, i + 4)
             ELSE FALSE

\* str::parse::<usize>: an optional '+' and one or more decimal digits
RECURSIVE digits_value(_, _)
digits_value(s, acc) ==
    IF s = <<>> THEN acc ELSE digits_value(Tail(s), acc * 10 + (Head(s) - 48))

parse_usize(s) ==
    LET of(digits) ==
          IF digits = <<>> \/ \E i \in 1..Len(digits) : digits[i] < 48 \/ digits[i] > 57
          THEN [ok |-> FALSE, value |-> 0]
          ELSE [ok |-> TRUE, value |-> digits_value(digits, 0)]
    IN  of(IF s # <<>> /\ s[1] = 43 THEN Tail(s) ELSE s)

ObjectTypes == {"commit", "tree", "blob", "tag"}

\* PackedObject::parse_header
object_parse_header(header) ==
    IF count_of(header, 32) # 1 THEN [ok |-> FALSE, obj_type |-> "blob", size |-> 0]
    ELSE LET of(t, size) ==
               IF (\A ty \in ObjectTypes : TypeName(ty) # t) \/ ~size.ok
               THEN [ok |-> FALSE, obj_type |-> "blob", size |-> 0]
               ELSE [ok |-> TRUE, size |-> size.value,
                     obj_type |-> CHOOSE ty \in ObjectTypes : TypeName(ty) = t]
             at(sp) == of(SubSeq(header, 1, sp), parse_usize(SubSeq(header, sp + 2, Len(header))))
         IN  at(position(header, 32, 0))

\* The result of reading an object: Ok(object), Err or a panic
Read(status, obj) == [status |-> status, obj |-> obj]

\* No loose object file is under .git/objects
NoLoose == [path |-> <<>>, file |-> <<>>, obj |-> NoObject]

\* PackedObject::open: the file at objects/<hex[..2]>/<hex[2..]> is inflated,
\* its hash is asserted to be the sha asked for, and it is split at the first
\* nul into "<type> <size>" and the content.
object_open(loose, sha) ==
    IF loose = NoLoose \/ loose.path # to_hex(sha) THEN Read("err", NoObject)
    ELSE LET split(inflated, header, idx) ==
               IF ~header.ok THEN Read("err", NoObject)
               ELSE IF Len(inflated) - (idx + 1) # header.size THEN Read("panic", NoObject)
               ELSE Read("ok", [obj_type |-> header.obj_type,
                                content  |-> Slice(inflated, idx + 1, Len(inflated))])
             checked(inflated, idx) ==
               IF sha1_hash(inflated) # sha THEN Read("panic", NoObject)
               ELSE IF idx = Len(inflated) THEN Read("err", NoObject)
               ELSE IF ~is_utf8(Slice(inflated, 0, idx), 1) THEN Read("err", NoObject)
               ELSE split(inflated, object_parse_header(Slice(inflated, 0, idx)), idx)
             on(z) ==
               IF z.status # "end" THEN Read("panic", NoObject)
               ELSE checked(z.out, position(z.out, 0, 0))
         IN  on(inflate(loose.file))

\* The packed backend alone: the loose file is never opened
Repo_read_object_pack_only(loose, pack, sha) ==
    LET from_pack(f) ==
          IF f.status # "ok" THEN Read(f.status, NoObject)
          ELSE IF ~f.some THEN Read("err", NoObject)
          ELSE Read("ok", f.obj)
    IN  {from_pack(f) : f \in find_by_sha(pack, to_hex(sha))}

\* Repo::read_object: the loose file first; on Err the pack, where a sha the
\* index does not hold is an Err as well.
Repo_read_object(loose, pack, sha) ==
    LET from_pack(f) ==
          IF f.status # "ok" THEN Read(f.status, NoObject)
          ELSE IF ~f.some THEN Read("err", NoObject)
          ELSE Read("ok", f.obj)
        on(opened) ==
          IF opened.status # "err" THEN {opened}
          ELSE {from_pack(f) : f \in find_by_sha(pack, to_hex(sha))}
    IN  on(object_open(loose, sha))

\* The loose files of the model.  Each is at the path of a sha and holds: the
\* object of that sha ("valid"); another object ("other"); bytes that are no
\* zlib stream ("garbage"); a stream cut short ("truncated"); and, at the path
\* of the hash of what they inflate to, a header with a wrong size ("size"),
\* with an unknown type ("type"), or without the nul ("nonul").
LooseContents == {<<1>>, <<1, 2>>}
LooseKinds == {"valid", "other", "garbage", "truncated", "size", "type", "nonul"}

LooseInflated(kind, c) ==
    CASE kind = "other" -> object_encode(Blob(Append(c, 7)))
      [] kind = "size"  -> TypeName("blob") \o <<32, 53, 0>> \o c
      [] kind = "type"  -> <<98, 108, 117, 98, 32>> \o to_string(Len(c)) \o <<0>> \o c
      [] kind = "nonul" -> TypeName("blob") \o <<32>> \o to_string(Len(c))
      [] OTHER          -> object_encode(Blob(c))

LooseFile(kind, c) ==
    [path |-> to_hex(IF kind \in {"size", "type", "nonul"}
                     THEN sha1_hash(LooseInflated(kind, c))
                     ELSE object_sha(Blob(c))),
     file |-> CASE kind = "garbage"   -> <<0, 0>>
                [] kind = "truncated" ->
                       SubSeq(deflate_stored(LooseInflated(kind, c)), 1,
                              Len(deflate_stored(LooseInflated(kind, c))) - 1)
                [] OTHER -> deflate_stored(LooseInflated(kind, c)),
     obj  |-> CASE kind = "valid" -> Blob(c)
                [] kind = "other" -> Blob(Append(c, 7))
                [] OTHER          -> NoObject]

LooseFiles == {NoLoose} \cup {LooseFile(k, c) : k \in LooseKinds, c \in LooseContents}

\* The shas read_object is asked for: those of the pack's objects, one of an
\* object that is nowhere, and the one the loose file is stored under.
RepoQueries ==
    {from_hex(h) : h \in PackQueries(p_layout)}
        \cup (IF r_loose = NoLoose THEN {} ELSE {from_hex(r_loose.path)})

---------------------------------------------------------------------------
(* Repo::from_packfile followed by Repo::read_object *)

InitRepo ==
    /\ DeltaIdle
    /\ IndexIdle
    /\ RefsIdle
    /\ StagingIdle
    /\ CommandsIdle
    /\ InitPackVars(Layouts(MaxFileEntries), {[kind |-> "none", reseal |-> FALSE]})
    /\ r_loose \in LooseFiles
    /\ r_query = <<>>
    /\ r_result = <<>>
    /\ r_pc = "ready"

\* Repo::read_object, on the repository from_packfile returned
RepoReadObject ==
    /\ p_pc = "open"
    /\ r_pc = "ready"
    /\ \E sha \in RepoQueries : \E r \in Repo_read_object(r_loose, p_pack, sha) :
          /\ r_query' = sha
          /\ r_result' = r
          /\ r_pc' = IF r.status = "panic" THEN "panic" ELSE "read"
    /\ UNCHANGED r_loose
    /\ UNCHANGED notRepo

NextRepo == PackParse \/ ObjectsNext \/ RepoReadObject
SpecRepo == InitRepo /\ [][NextRepo]_vars

\* A valid loose object for the sha is on disk: the file at the sha's path is
\* the zlib stream of the encoded object whose hash the sha is
ValidLooseFor(sha) ==
    /\ r_loose # NoLoose
    /\ r_loose.path = to_hex(sha)
    /\ r_loose.obj # NoObject
    /\ r_loose.file = deflate_stored(object_encode(r_loose.obj))
    /\ object_sha(r_loose.obj) = sha

\* What the pack alone answers for the sha
PackAnswers(sha) ==
    {IF f.status = "ok" /\ f.some THEN Read("ok", f.obj) ELSE Read("err", NoObject)
     : f \in {g \in find_by_sha(p_pack, to_hex(sha)) : g.status = "ok"}}

PackObjectFor(sha) ==
    LET holders == {i \in 1..Len(p_layout) : object_sha(Blob(Resolved(p_layout, i))) = sha}
    IN  IF holders = {} THEN Read("err", NoObject)
        ELSE Read("ok", Blob(Resolved(p_layout, CHOOSE i \in holders : TRUE)))

---------------------------------------------------------------------------
(* Strings and paths.  A str is the sequence of its bytes.                 *)

starts_with(s, prefix) == Len(s) >= Len(prefix) /\ SubSeq(s, 1, Len(prefix)) = prefix
ends_with(s, suffix) ==
    Len(s) >= Len(suffix) /\ SubSeq(s, Len(s) - Len(suffix) + 1, Len(s)) = suffix
contains(s, c) == \E i \in 1..Len(s) : s[i] = c

\* char::is_whitespace, for the bytes of ASCII
is_whitespace(c) == c \in {9, 10, 11, 12, 13, 32}

\* str::trim, str::trim_start and str::trim_end
RECURSIVE trim_start(_)
trim_start(s) == IF s # <<>> /\ is_whitespace(Head(s)) THEN trim_start(Tail(s)) ELSE s
RECURSIVE trim_end(_)
trim_end(s) ==
    IF s # <<>> /\ is_whitespace(s[Len(s)]) THEN trim_end(SubSeq(s, 1, Len(s) - 1)) ELSE s
trim(s) == trim_end(trim_start(s))

\* The 0-based position of the first occurrence of pat in s from position i
\* on, or Len(s) when there is none
RECURSIVE find_str(_, _, _)
find_str(s, pat, i) ==
    IF i + Len(pat) > Len(s) THEN Len(s)
    ELSE IF SubSeq(s, i + 1, i + Len(pat)) = pat THEN i
    ELSE find_str(s, pat, i + 1)

\* PathBuf::push: an absolute component replaces the path, any other is
\* appended after a separator
path_push(path, comp) ==
    IF comp # <<>> /\ comp[1] = 47 THEN comp
    ELSE IF path = <<>> \/ path[Len(path)] = 47 THEN path \o comp
    ELSE path \o <<47>> \o comp

---------------------------------------------------------------------------
(* store/mod.rs: resolve_ref and read_sym_ref                              *)

Str_HEAD == <<72, 69, 65, 68>>
Str_git == <<46, 103, 105, 116>>
Str_refs_heads == <<114, 101, 102, 115, 47, 104, 101, 97, 100, 115>>
Str_refs_remotes == <<114, 101, 102, 115, 47, 114, 101, 109, 111, 116, 101, 115>>
Str_refs_ == <<114, 101, 102, 115, 47>>
Str_ref_ == <<114, 101, 102, 58, 32>>

\* is_hex_sha: 40 characters, each a hexadecimal digit of either case
is_hex_digit(c) == (c >= 48 /\ c <= 57) \/ (c >= 97 /\ c <= 102) \/ (c >= 65 /\ c <= 70)
is_hex_sha(id) == Len(id) = 40 /\ \A i \in 1..40 : is_hex_digit(id[i])

\* Sha::from_hex(..).unwrap() of faster_hex: 40 hex digits of either case
hex_digit_value(c) == IF c <= 57 THEN c - 48 ELSE IF c >= 97 THEN c - 87 ELSE c - 55
sha_from_hex(hex) ==
    [i \in 1..ShaLen |-> hex_digit_value(hex[2 * i - 1]) * 16 + hex_digit_value(hex[2 * i])]

\* The file read_sym_ref opens for a name
sym_ref_path(repo, name) ==
    LET root == path_push(path_push(<<>>, repo), Str_git)
        dir  == IF name = Str_HEAD THEN root
                ELSE IF ~contains(name, 47) THEN path_push(root, Str_refs_heads)
                ELSE IF ~starts_with(name, Str_refs_) THEN path_push(root, Str_refs_remotes)
                ELSE root
    IN  path_push(dir, name)

\* One call of resolve_ref, up to the call of resolve_ref that read_sym_ref
\* ends with: a Sha ("sha"), the name to go on with ("follow"), an Err or a
\* panic.
resolve_ref_call(files, repo, name) ==
    LET done(kind, value) == [kind |-> kind, value |-> value]
        read(contents) ==
          IF ~is_utf8(contents, 1) THEN done("err", <<>>)
          ELSE IF starts_with(contents, Str_ref_)
          THEN done("follow",
                    trim(SubSeq(contents, Len(Str_ref_) + 1,
                                find_str(contents, Str_ref_, Len(Str_ref_)))))
          ELSE IF is_hex_sha(trim(contents)) THEN done("sha", sha_from_hex(trim(contents)))
          ELSE done("panic", <<>>)
        open(path) == IF path \in DOMAIN files THEN read(files[path]) ELSE done("err", <<>>)
        on(trimmed) ==
          IF is_hex_sha(trimmed) THEN done("sha", sha_from_hex(trimmed))
          ELSE open(sym_ref_path(repo, trimmed))
    IN  on(trim(name))

\* The repositories resolve_ref is run on: HEAD and MaxRefs branch files at
\* most, the first `n` of them a chain of symbolic refs from HEAD on, the
\* last file of the chain holding a hash, a ref back to HEAD, a ref to a file
\* that does not exist, or text that is neither.
MaxRefs == 10

\* How many indirections of one resolve_ref are followed; a call that needs
\* more is recorded as still descending.
MaxRefDepth == 12

RepoDir == <<114>>
SomeHex == to_hex(object_sha(Blob(<<1>>)))
BranchName(k) == Str_refs_heads \o <<47, 97 + k>>
SymRef(name) == Str_ref_ \o name \o <<10>>
ChainEnds == {"sha", "cycle", "missing", "bad"}

RefFile(k) == IF k = 0 THEN sym_ref_path(RepoDir, Str_HEAD)
              ELSE sym_ref_path(RepoDir, BranchName(k))

RefFiles(n, end) ==
    [path \in {RefFile(k) : k \in 0..n} |->
        LET k == CHOOSE j \in 0..n : RefFile(j) = path
        IN  IF k < n THEN SymRef(BranchName(k + 1))
            ELSE CASE end = "sha"     -> SomeHex \o <<10>>
                   [] end = "cycle"   -> SymRef(Str_HEAD)
                   [] end = "missing" -> SymRef(BranchName(n + 1))
                   [] end = "bad"     -> <<122, 122>> \o <<10>>]

\* The names resolve_ref is asked for: HEAD, the short name of the first
\* branch, HEAD with blanks around it, and a hash
RefQueries == {Str_HEAD, <<98>>, <<32>> \o Str_HEAD \o <<10>>, SomeHex}

InitRefs ==
    /\ DeltaIdle
    /\ IndexIdle
    /\ PackIdle
    /\ RepoIdle
    /\ StagingIdle
    /\ CommandsIdle
    /\ f_files \in {RefFiles(n, end) : n \in 0..MaxRefs, end \in ChainEnds}
    /\ f_name \in RefQueries
    /\ f_depth = 0
    /\ f_result = <<>>
    /\ f_pc = "resolving"

\* resolve_ref: one call, down to the call read_sym_ref makes for a "ref: " file
ResolveRef ==
    /\ f_pc = "resolving"
    /\ \E r \in {resolve_ref_call(f_files, RepoDir, f_name)} :
          CASE r.kind = "sha" ->
                 /\ f_result' = r.value
                 /\ f_pc' = "done"
                 /\ UNCHANGED <<f_name, f_depth>>
            [] r.kind = "follow" ->
                 /\ f_name' = r.value
                 /\ f_depth' = f_depth + 1
                 /\ f_pc' = IF f_depth + 1 >= MaxRefDepth THEN "deep" ELSE "resolving"
                 /\ UNCHANGED f_result
            [] OTHER ->
                 /\ f_pc' = r.kind
                 /\ UNCHANGED <<f_name, f_depth, f_result>>
    /\ UNCHANGED f_files
    /\ UNCHANGED notRefs

NextRefs == ResolveRef
SpecRefs == InitRefs /\ [][NextRefs]_vars

\* C12: resolve_ref follows at most 8 "ref: " indirections, whatever the ref
\* files hold: it never goes a ninth level down, and it returns a hash only
\* for a chain of 8 indirections or fewer.
C12_AtMostEightIndirections ==
    /\ f_depth <= 8
    /\ f_pc # "deep"

---------------------------------------------------------------------------
(* store/mod.rs: the staging index, encode_index and read_index            *)

\* GitTime, and a u64 or i64 as its two 32-bit words
GitTime(secs, nanos) == [secs |-> secs, nanos |-> nanos]
Long(high, low) == [high |-> high, low |-> low]

\* Index::new
Index_new(entries) == [entries |-> entries, extensions |-> <<>>]

\* "DIRC"
GIT_INDEX_MAGIC == <<68, 73, 82, 67>>
GIT_INDEX_VERSION == 2

\* encode_header
encode_header(num_entries) == GIT_INDEX_MAGIC \o U32BE(2) \o U32BE(num_entries)

\* (encoded_type << 12) | perms, for perms of 16 bits and a type of 4 bits
or_type(encoded_type, perms) ==
    LET hi == (perms \div 4096) % 16
        or_bit(k) == IF Bit(hi, k) \/ Bit(encoded_type, k) THEN Pow2(k) ELSE 0
    IN  4096 * (or_bit(0) + or_bit(1) + or_bit(2) + or_bit(3)) + (perms % 4096)

\* encode_entry: ten 32-bit words, the sha, the flags, the path, a nul, and
\* nuls up to a multiple of 8 bytes
encode_entry(entry) ==
    LET padded(bytes) ==
          IF Len(bytes) % 8 = 0 THEN bytes
          ELSE bytes \o [i \in 1..(8 - (Len(bytes) % 8)) |-> 0]
        encoded_mode ==
          CASE entry.file_mode \in {"Normal", "Executable"} -> or_type(8, entry.mode)
            [] entry.file_mode = "Symlink" -> 10 * 4096
            [] entry.file_mode = "Gitlink" -> 14 * 4096
    IN  padded(WideU32BE(entry.ctime.secs) \o WideU32BE(entry.ctime.nanos)
               \o WideU32BE(entry.mtime.secs) \o WideU32BE(entry.mtime.nanos)
               \o WideU32BE(entry.device) \o WideU32BE(entry.inode.low)
               \o U32BE(encoded_mode)
               \o WideU32BE(entry.uid) \o WideU32BE(entry.gid)
               \o WideU32BE(entry.size.low)
               \o entry.sha
               \o <<(Len(entry.path) % 4096) \div 256, Len(entry.path) % 256>>
               \o entry.path \o <<0>>)

\* sort_by(|a, b| a.path.cmp(&b.path)): a stable sort on the bytes of the path
RECURSIVE insert_by_path(_, _)
insert_by_path(sorted, e) ==
    IF sorted = <<>> THEN <<e>>
    ELSE IF cmp(e.path, sorted[Len(sorted)].path) >= 0 THEN Append(sorted, e)
    ELSE Append(insert_by_path(SubSeq(sorted, 1, Len(sorted) - 1), e), sorted[Len(sorted)])

\* The entries left in the order they were inserted in
sort_by_path_skipped(entries) == entries

RECURSIVE sort_by_path(_)
sort_by_path(entries) ==
    IF entries = <<>> THEN <<>>
    ELSE insert_by_path(sort_by_path(SubSeq(entries, 1, Len(entries) - 1)),
                        entries[Len(entries)])

\* encode_index: the index with its entries sorted, and the bytes written
encode_extension(ext) == ext.sig \o U32BE(Len(ext.contents)) \o ext.contents

encode_index(idx) ==
    LET written(sorted, bytes) ==
          [index |-> [idx EXCEPT !.entries = sorted], bytes |-> bytes \o sha1_hash(bytes)]
        emit(sorted) ==
          written(sorted,
                  encode_header(Len(sorted))
                      \o concat_all([i \in 1..Len(sorted) |-> encode_entry(sorted[i])])
                      \o concat_all([i \in 1..Len(idx.extensions) |->
                                        encode_extension(idx.extensions[i])]))
    IN  emit(sort_by_path(idx.entries))

\* The DigestReader over a Cursor: `pos` bytes of the input are consumed, and
\* `dig` is what Read::read handed out, which is all the digest is fed with;
\* what BufRead hands out (fill_buf, consume, read_until) is not hashed.
DigestReader_new == [pos |-> 0, dig |-> <<>>]

\* read_exact of n bytes through Read::read
digest_read(r, rd, n) ==
    IF rd.pos + n > Len(r) THEN [ok |-> FALSE, bytes |-> <<>>, rd |-> rd]
    ELSE [ok |-> TRUE, bytes |-> Slice(r, rd.pos, rd.pos + n),
          rd |-> [pos |-> rd.pos + n, dig |-> rd.dig \o Slice(r, rd.pos, rd.pos + n)]]

\* How many bytes from position i on are zero
RECURSIVE zeros_from(_, _)
zeros_from(r, i) == IF i < Len(r) /\ r[i + 1] = 0 THEN 1 + zeros_from(r, i + 1) ELSE 0

NoEntry == [ok |-> FALSE]

\* read_entry
read_entry(r, rd) ==
    LET failed(at) == [ok |-> FALSE, entry |-> NoEntry, rd |-> at]
        built(f, file_mode, mode, path, after) ==
          IF ~is_utf8(path, 1) THEN failed(after)
          ELSE [ok |-> TRUE, rd |-> after,
                entry |-> [ctime  |-> GitTime(ReadWideU32(f, 0), ReadWideU32(f, 4)),
                           mtime  |-> GitTime(ReadWideU32(f, 8), ReadWideU32(f, 12)),
                           device |-> ReadWideU32(f, 16),
                           inode  |-> Long(Wide(0), ReadWideU32(f, 20)),
                           mode   |-> mode % Pow2(16),
                           uid    |-> ReadWideU32(f, 28),
                           gid    |-> ReadWideU32(f, 32),
                           size   |-> Long(Wide(0), ReadWideU32(f, 36)),
                           sha    |-> Slice(f, 40, 60),
                           file_mode |-> file_mode,
                           path   |-> path]]
        \* read_until(0, &mut path); path.pop(); then the nuls that follow
        with_path(f, file_mode, mode, at, nul) ==
          IF nul < Len(r)
          THEN built(f, file_mode, mode, Slice(r, at.pos, nul),
                     [at EXCEPT !.pos = nul + 1 + zeros_from(r, nul + 1)])
          ELSE built(f, file_mode, mode, Slice(r, at.pos, Max(at.pos, Len(r) - 1)),
                     [at EXCEPT !.pos = Len(r)])
        with_mode(fixed, encoded_type, perms) ==
          IF ~fixed.ok THEN failed(fixed.rd)
          ELSE CASE encoded_type = 8 /\ perms = 33188 ->
                      with_path(fixed.bytes, "Normal", perms, fixed.rd,
                                position(r, 0, fixed.rd.pos))
                 [] encoded_type = 8 /\ perms = 420 ->
                      with_path(fixed.bytes, "Normal", perms, fixed.rd,
                                position(r, 0, fixed.rd.pos))
                 [] encoded_type = 8 /\ perms = 33261 ->
                      with_path(fixed.bytes, "Executable", perms, fixed.rd,
                                position(r, 0, fixed.rd.pos))
                 [] encoded_type = 10 /\ perms = 0 ->
                      with_path(fixed.bytes, "Symlink", 0, fixed.rd,
                                position(r, 0, fixed.rd.pos))
                 [] encoded_type = 14 /\ perms = 0 ->
                      with_path(fixed.bytes, "Gitlink", 0, fixed.rd,
                                position(r, 0, fixed.rd.pos))
                 [] OTHER -> failed(fixed.rd)
        \* the ten words, the sha and the flags: 62 bytes
        on(fixed) ==
          IF ~fixed.ok THEN failed(fixed.rd)
          ELSE with_mode(fixed,
                         fixed.bytes[25] * Pow2(12) + fixed.bytes[26] * 16
                             + (fixed.bytes[27] \div 16),
                         (fixed.bytes[27] % 32) * 256 + fixed.bytes[28])
    IN  on(digest_read(r, rd, 62))

\* read_extension: Ok(Some(ext)), Ok(None) or Err
read_extension(r, rd) ==
    LET none(status) == [status |-> status, ext |-> <<>>, rd |-> rd]
        with_contents(sig, contents) ==
          IF ~contents.ok THEN none("err")
          ELSE [status |-> "some", rd |-> contents.rd,
                ext |-> [sig |-> sig, contents |-> contents.bytes]]
        with_len(sig, len) ==
          IF ~len.ok THEN none("err")
          ELSE IF len.bytes[1] # 0 \/ len.bytes[2] # 0 THEN none("err")
          ELSE with_contents(sig, digest_read(r, len.rd, len.bytes[3] * 256 + len.bytes[4]))
        on(sig) ==
          IF \E i \in 1..4 : sig[i] >= 128 THEN none("none")
          ELSE with_len(sig, digest_read(r, [rd EXCEPT !.pos = @ + 4], 4))
    IN  IF Len(r) - rd.pos < 4 THEN none("none")
        ELSE on(Slice(r, rd.pos, rd.pos + 4))

RECURSIVE read_entries(_, _, _, _)
read_entries(r, rd, n, entries) ==
    IF n = 0 THEN [ok |-> TRUE, entries |-> entries, rd |-> rd]
    ELSE LET on(e) == IF ~e.ok THEN [ok |-> FALSE, entries |-> entries, rd |-> e.rd]
                      ELSE read_entries(r, e.rd, n - 1, Append(entries, e.entry))
         IN  on(read_entry(r, rd))

RECURSIVE read_extensions(_, _, _)
read_extensions(r, rd, extensions) ==
    LET on(x) == IF x.status = "some" THEN read_extensions(r, x.rd, Append(extensions, x.ext))
                 ELSE [ok |-> x.status = "none", extensions |-> extensions, rd |-> x.rd]
    IN  on(read_extension(r, rd))

\* read_index: Ok(index) or Err
read_index(r) ==
    LET err == [ok |-> FALSE, index |-> Index_new(<<>>)]
        closed(entries, extensions, checksum) ==
          IF ~checksum.ok THEN err
          ELSE IF checksum.rd.pos < Len(r) THEN err
          ELSE IF sha1_hash(checksum.rd.dig) = checksum.bytes THEN err
          ELSE [ok |-> TRUE, index |-> [entries |-> entries, extensions |-> extensions]]
        with_extensions(entries, x) ==
          IF ~x.ok THEN err
          ELSE closed(entries, x.extensions, digest_read(r, x.rd, ShaLen))
        with_entries(e) ==
          IF ~e.ok THEN err
          ELSE with_extensions(e.entries, read_extensions(r, e.rd, <<>>))
        on(header) ==
          IF ~header.ok THEN err
          ELSE IF Slice(header.bytes, 0, 4) # GIT_INDEX_MAGIC THEN err
          ELSE IF Slice(header.bytes, 4, 8) # U32BE(GIT_INDEX_VERSION) THEN err
          ELSE IF header.bytes[9] # 0 \/ header.bytes[10] # 0 THEN err
          ELSE with_entries(read_entries(r, header.rd,
                                         header.bytes[11] * 256 + header.bytes[12], <<>>))
    IN  on(digest_read(r, DigestReader_new, 12))

\* The indexes of the model: up to MaxStaged entries as get_index_entry makes
\* them for the files checkout wrote, mode 0o100644 (Normal) or 0o100755
\* (Executable), with times before and after 2^24 seconds, inodes below and
\* above 2^32, and paths of one and of two components.
MaxStaged == 2

StagedModes == {[file_mode |-> "Normal", mode |-> 33188],
                [file_mode |-> "Executable", mode |-> 33261]}
StagedTimes == {GitTime(Wide(1), Wide(0)), GitTime([hi |-> 24975, lo |-> 4714], Wide(79))}
StagedInodes == {Long(Wide(0), Wide(5)), Long(Wide(1), Wide(5))}
StagedPaths == {<<102, 111, 111>>, <<98, 97, 114, 47, 98, 97, 122>>}

StagedEntries ==
    {[ctime |-> t, mtime |-> t, device |-> Wide(1), inode |-> i, mode |-> m.mode,
      uid |-> Wide(501), gid |-> Wide(20), size |-> Long(Wide(0), Wide(1)),
      sha |-> object_sha(Blob(<<1>>)), file_mode |-> m.file_mode, path |-> p]
     : t \in StagedTimes, i \in StagedInodes, m \in StagedModes, p \in StagedPaths}

RECURSIVE StagedLists(_)
StagedLists(n) ==
    IF n = 0 THEN {<<>>}
    ELSE LET shorter == StagedLists(n - 1)
         IN  shorter \cup {Append(l, e) : l \in {x \in shorter : Len(x) = n - 1},
                                          e \in StagedEntries}

InitStaging ==
    /\ DeltaIdle
    /\ IndexIdle
    /\ PackIdle
    /\ RepoIdle
    /\ RefsIdle
    /\ CommandsIdle
    /\ x_index \in {Index_new(l) : l \in StagedLists(MaxStaged) \ {<<>>}}
    /\ x_bytes = <<>>
    /\ x_read = <<>>
    /\ x_pc = "start"

\* encode_index(&mut idx, &mut w)
EncodeIndex ==
    /\ x_pc = "start"
    /\ \E w \in {encode_index(x_index)} :
          /\ x_index' = w.index
          /\ x_bytes' = w.bytes
    /\ x_pc' = "encoded"
    /\ UNCHANGED x_read
    /\ UNCHANGED notStaging

\* read_index(Cursor::new(&bytes))
ReadIndex ==
    /\ x_pc = "encoded"
    /\ x_read' = read_index(x_bytes)
    /\ x_pc' = "read"
    /\ UNCHANGED <<x_index, x_bytes>>
    /\ UNCHANGED notStaging

NextStaging == EncodeIndex \/ ReadIndex
SpecStaging == InitStaging /\ [][NextStaging]_vars

---------------------------------------------------------------------------
(* store/tree.rs and store/commit.rs: the parsers of trees and commits     *)

\* EntryMode::try_from
Str_100644 == <<49, 48, 48, 54, 52, 52>>
Str_644 == <<54, 52, 52>>
Str_100755 == <<49, 48, 48, 55, 53, 53>>
Str_755 == <<55, 53, 53>>
Str_120000 == <<49, 50, 48, 48, 48, 48>>
Str_160000 == <<49, 54, 48, 48, 48, 48>>
Str_40000 == <<52, 48, 48, 48, 48>>

EntryMode_try_from(mode) ==
    CASE mode \in {Str_100644, Str_644} -> "Normal"
      [] mode \in {Str_100755, Str_755} -> "Executable"
      [] mode = Str_120000 -> "Symlink"
      [] mode = Str_160000 -> "Gitlink"
      [] mode = Str_40000 -> "SubDirectory"
      [] OTHER -> "Unsupported"

\* parse_tree_entry at position pos: the mode up to a blank, the path up to a
\* nul, and 20 bytes of sha
parse_tree_entry(input, pos) ==
    LET fail == [ok |-> FALSE, pos |-> pos, entry |-> <<>>]
        shaAt(mode, path, at) ==
          IF at + ShaLen > Len(input) THEN fail
          ELSE [ok |-> TRUE, pos |-> at + ShaLen,
                entry |-> [mode |-> mode, path |-> path, sha |-> Slice(input, at, at + ShaLen)]]
        pathAt(mode, from, nul) ==
          IF nul >= Len(input) THEN fail
          ELSE IF ~is_utf8(Slice(input, from, nul), 1) THEN fail
          ELSE shaAt(mode, Slice(input, from, nul), nul + 1)
        modeAt(sp) ==
          IF sp >= Len(input) THEN fail
          ELSE IF EntryMode_try_from(Slice(input, pos, sp)) = "Unsupported" THEN fail
          ELSE pathAt(EntryMode_try_from(Slice(input, pos, sp)), sp + 1,
                      position(input, 0, sp + 1))
    IN  modeAt(position(input, 32, pos))

\* many1(parse_tree_entry): the entries up to the first that does not parse
RECURSIVE parse_tree_entries(_, _, _)
parse_tree_entries(input, pos, acc) ==
    LET on(e) == IF ~e.ok THEN acc
                 ELSE parse_tree_entries(input, e.pos, Append(acc, e.entry))
    IN  on(parse_tree_entry(input, pos))

\* Tree::parse: None unless one entry at least was parsed
NoTree == [some |-> FALSE, entries |-> <<>>]
Tree_parse(content) ==
    LET on(entries) == IF entries = <<>> THEN NoTree
                       ELSE [some |-> TRUE, entries |-> entries]
    IN  on(parse_tree_entries(content, 0, <<>>))

\* PackedObject::as_tree
as_tree(obj) == IF obj.obj_type = "tree" THEN Tree_parse(obj.content) ELSE NoTree

\* tag(t) at position pos: the position after it, or -1
tag(input, pos, t) ==
    IF pos >= 0 /\ Slice(input, pos, Min(pos + Len(t), Len(input))) = t THEN pos + Len(t)
    ELSE -1

\* character::i64 and character::i32 followed by the byte `term`: an optional
\* sign, one digit or more, and the terminator; the position after it, or -1
RECURSIVE digits_end(_, _)
digits_end(input, pos) ==
    IF pos < Len(input) /\ input[pos + 1] >= 48 /\ input[pos + 1] <= 57
    THEN digits_end(input, pos + 1) ELSE pos
signed_then(input, pos, term) ==
    LET after(from, to) ==
          IF to = from THEN -1
          ELSE IF to >= Len(input) \/ input[to + 1] # term THEN -1
          ELSE to + 1
        digits(from) == after(from, digits_end(input, from))
    IN  IF pos < 0 THEN -1
        ELSE digits(IF pos < Len(input) /\ input[pos + 1] \in {43, 45} THEN pos + 1 ELSE pos)

\* parse_person: "<name> <<email>> <seconds> <zone>\n"; the position after
\* it, or -1
parse_person(input, pos) ==
    LET email(from, to) ==
          IF to >= Len(input) \/ ~is_utf8(Slice(input, from, to), 1) THEN -1
          ELSE signed_then(input, signed_then(input, to + 2, 32), 10)
        name(to) ==
          IF to >= Len(input) \/ ~is_utf8(Slice(input, pos, to), 1) THEN -1
          ELSE email(to + 2, find_str(input, <<62, 32>>, to + 2))
    IN  IF pos < 0 THEN -1 ELSE name(find_str(input, <<32, 60>>, pos))

\* gpgsig: "gpgsig", the rest of the line, and the lines after it that begin
\* with a blank; the position after it, or -1
RECURSIVE continuation_lines(_, _)
continuation_lines(input, pos) ==
    IF pos < Len(input) /\ input[pos + 1] = 32 /\ position(input, 10, pos + 1) < Len(input)
    THEN continuation_lines(input, position(input, 10, pos + 1) + 1)
    ELSE pos
gpgsig(input, pos) ==
    LET line(from, nl) ==
          IF from < 0 \/ nl = from \/ nl >= Len(input) THEN -1
          ELSE continuation_lines(input, nl + 1)
        on(from) == line(from, IF from < 0 THEN 0 ELSE position(input, 10, from))
    IN  on(tag(input, pos, <<103, 112, 103, 115, 105, 103>>))

\* "<word> " and 40 hex digits and a newline: the position after them, or -1
sha_line(input, pos, word) ==
    LET hex(from) ==
          IF from < 0 \/ from + 40 >= Len(input) THEN -1
          ELSE IF ~is_hex_sha(Slice(input, from, from + 40)) THEN -1
          ELSE IF input[from + 41] # 10 THEN -1
          ELSE from + 41
    IN  hex(tag(input, pos, word))

\* many0 of the "parent " lines
RECURSIVE parent_lines(_, _, _)
parent_lines(input, pos, acc) ==
    LET on(next) ==
          IF next < 0 THEN [pos |-> pos, parents |-> acc]
          ELSE parent_lines(input, next,
                            Append(acc, sha_from_hex(Slice(input, next - 41, next - 1))))
    IN  on(sha_line(input, pos, <<112, 97, 114, 101, 110, 116, 32>>))

\* parse_commit, and Commit::from_raw, which wants all of the input parsed:
\* the message is the rest of it
NoCommit == [some |-> FALSE, tree |-> <<>>, parents |-> <<>>, message |-> <<>>]
Commit_from_raw(content) ==
    LET message(tree, parents, at) ==
          IF at >= Len(content) \/ content[at + 1] # 10 THEN NoCommit
          ELSE IF ~is_utf8(Slice(content, at + 1, Len(content)), 1) THEN NoCommit
          ELSE [some |-> TRUE, tree |-> tree, parents |-> parents,
                message |-> Slice(content, at + 1, Len(content))]
        signature(tree, parents, at, sig) ==
          message(tree, parents, IF sig < 0 THEN at ELSE sig)
        people(tree, parents, at) ==
          IF at < 0 THEN NoCommit
          ELSE signature(tree, parents, at, gpgsig(content, at))
        parents(tree, p) ==
          people(tree, p.parents,
                 parse_person(content,
                              tag(content,
                                  parse_person(content, tag(content, p.pos, <<97, 117, 116, 104, 111, 114, 32>>)),
                                  <<99, 111, 109, 109, 105, 116, 116, 101, 114, 32>>)))
        tree(at) ==
          IF at < 0 THEN NoCommit
          ELSE parents(sha_from_hex(Slice(content, at - 41, at - 1)),
                       parent_lines(content, at, <<>>))
    IN  tree(sha_line(content, 0, <<116, 114, 101, 101, 32>>))

\* PackedObject::as_commit
as_commit(obj) == IF obj.obj_type = "commit" THEN Commit_from_raw(obj.content) ELSE NoCommit

---------------------------------------------------------------------------
(* Repo::checkout_head: walk, walk_tree, get_index_entry and write_index   *)

\* The pack of the repository: the one from_packfile parses from a pack
\* stream of no objects.  Every object of the repository is a loose object.
EmptyPack ==
    LET built(h) == [h.pack EXCEPT !.index = from_objects(<<>>, h.pack.sha)]
    IN  built(parse_header(WritePack(<<>>)))

\* The loose file of a sha in .git/objects, if there is one
loose_at(objects, sha) ==
    IF to_hex(sha) \in DOMAIN objects
    THEN [path |-> to_hex(sha), file |-> objects[to_hex(sha)], obj |-> NoObject]
    ELSE NoLoose

\* self.read_object(sha), on a repository with that pack
read_object_of(objects, sha) ==
    CHOOSE r \in Repo_read_object(loose_at(objects, sha), EmptyPack, sha) : TRUE

\* obj.as_tree() of what read_object returned: "some", "none" or "panic"
tree_of_read(r) ==
    IF r.status = "panic" THEN [status |-> "panic", entries |-> <<>>]
    ELSE IF r.status # "ok" \/ ~as_tree(r.obj).some THEN [status |-> "none", entries |-> <<>>]
    ELSE [status |-> "some", entries |-> as_tree(r.obj).entries]

\* Repo::read_tree
read_tree(objects, sha) == tree_of_read(read_object_of(objects, sha))

\* Repo::extract_tree, of what as_commit returned
extract_tree(objects, commit) ==
    IF ~commit.some THEN [status |-> "none", entries |-> <<>>]
    ELSE read_tree(objects, commit.tree)

\* Repo::walk: the tree of a commit, or the tree the sha names
walk_read(objects, r) ==
    IF r.status = "panic" THEN [status |-> "panic", entries |-> <<>>]
    ELSE IF r.status # "ok" THEN [status |-> "none", entries |-> <<>>]
    ELSE IF r.obj.obj_type = "commit" THEN extract_tree(objects, as_commit(r.obj))
    ELSE IF r.obj.obj_type = "tree" THEN tree_of_read(r)
    ELSE [status |-> "none", entries |-> <<>>]

walk(objects, sha) == walk_read(objects, read_object_of(objects, sha))

\* str::trim_start_matches: the prefix is removed as often as it is there
RECURSIVE trim_start_matches(_, _)
trim_start_matches(s, prefix) ==
    IF prefix # <<>> /\ starts_with(s, prefix)
    THEN trim_start_matches(SubSeq(s, Len(prefix) + 1, Len(s)), prefix)
    ELSE s

\* What fs::metadata reports of a file checkout has just written: the device,
\* owner and times of the model's file system, the inode the file was given,
\* the mode set_permissions set, and the length of the content
FileTime == GitTime([hi |-> 24975, lo |-> 4714], Wide(79))
metadata(file) ==
    [ctime |-> FileTime, mtime |-> FileTime, dev |-> Wide(1), ino |-> Long(Wide(0), Wide(file.ino)),
     mode |-> file.mode, uid |-> Wide(501), gid |-> Wide(20),
     size |-> Long(Wide(0), Wide(Len(file.content)))]

\* get_index_entry
get_index_entry(root, path, file_mode, sha, meta) ==
    [ctime |-> meta.ctime, mtime |-> meta.mtime, device |-> meta.dev, inode |-> meta.ino,
     mode |-> meta.mode % Half, uid |-> meta.uid, gid |-> meta.gid, size |-> meta.size,
     sha |-> sha,
     path |-> trim_start_matches(trim_start_matches(path, root), <<47>>),
     file_mode |-> file_mode]

\* The working tree and the entries collected while walk_tree runs: the files
\* written (path |-> content, mode, inode), the directories made, and `idx`
NoFiles == [p \in {} |-> <<>>]
WalkStart == [files |-> NoFiles, dirs |-> {}, idx |-> <<>>]

\* The Normal | Executable arm of walk_tree for one entry: the object is read,
\* the file created and written, its mode set, and its index entry pushed
written_entry(root, full_path, entry, st, r) ==
    IF r.status # "ok" THEN [status |-> r.status, st |-> st]
    ELSE IF full_path \in st.dirs THEN [status |-> "err", st |-> st]
    ELSE LET file == [content |-> r.obj.content,
                      mode |-> IF entry.mode = "Normal" THEN 33188 ELSE 33261,
                      ino |-> IF full_path \in DOMAIN st.files THEN st.files[full_path].ino
                              ELSE Cardinality(DOMAIN st.files) + 1]
         IN  [status |-> "ok",
              st |-> [st EXCEPT !.files = (full_path :> file) @@ st.files,
                                !.idx = Append(st.idx,
                                               get_index_entry(root, full_path, entry.mode,
                                                               entry.sha, metadata(file)))]]

write_entry(objects, root, full_path, entry, st) ==
    written_entry(root, full_path, entry, st, read_object_of(objects, entry.sha))

\* The arm of one entry where walk_tree stops at a Symlink or a Gitlink
unsupported_entry(st) == [status |-> "err", st |-> st]

\* `.ok()` on what walk_tree returned for a subtree: its Err is dropped
dropped(r) == [status |-> IF r.status = "panic" THEN "panic" ELSE "ok", st |-> r.st]

\* walk_tree, from the i-th entry of the tree on.  An Err ends the loop of
\* this tree.
RECURSIVE walk_tree(_, _, _, _, _, _)
RECURSIVE walk_next(_, _, _, _, _, _)
RECURSIVE walk_subtree(_, _, _, _, _)
RECURSIVE walk_entry(_, _, _, _, _, _, _)

\* The loop goes on with the next entry unless this one returned an Err
walk_next(objects, root, parent, entries, i, r) ==
    IF r.status # "ok" THEN r
    ELSE walk_tree(objects, root, parent, entries, i + 1, r.st)

\* self.walk(sha).and_then(|t| self.walk_tree(path_str, &t, idx).ok())
walk_subtree(objects, root, full_path, made, t) ==
    IF t.status = "panic" THEN [status |-> "panic", st |-> made]
    ELSE IF t.status = "none" THEN [status |-> "ok", st |-> made]
    ELSE dropped(walk_tree(objects, root, full_path, t.entries, 1, made))

walk_entry(objects, root, parent, entries, i, st, full_path) ==
    CASE entries[i].mode = "SubDirectory" ->
           IF full_path \in DOMAIN st.files THEN [status |-> "err", st |-> st]
           ELSE walk_next(objects, root, parent, entries, i,
                          walk_subtree(objects, root, full_path,
                                       [st EXCEPT !.dirs = @ \cup {full_path}],
                                       walk(objects, entries[i].sha)))
      [] entries[i].mode \in {"Normal", "Executable"} ->
           walk_next(objects, root, parent, entries, i,
                     write_entry(objects, root, full_path, entries[i], st))
      [] OTHER -> unsupported_entry(st)

walk_tree(objects, root, parent, entries, i, st) ==
    IF i > Len(entries) THEN [status |-> "ok", st |-> st]
    ELSE walk_entry(objects, root, parent, entries, i, st,
                    path_push(path_push(<<>>, parent), entries[i].path))

\* resolve_ref with the calls read_sym_ref ends with, `fuel` of them at most
RECURSIVE resolve_ref(_, _, _, _)
resolve_followed(files, repo, fuel, r) ==
    IF r.kind # "follow" THEN r
    ELSE IF fuel = 0 THEN [kind |-> "deep", value |-> <<>>]
    ELSE resolve_ref(files, repo, r.value, fuel - 1)
resolve_ref(files, repo, name, fuel) ==
    resolve_followed(files, repo, fuel, resolve_ref_call(files, repo, name))

\* Repo::checkout_head: HEAD is resolved, the tree of the tip is walked, what
\* walk and walk_tree return is dropped, and the index is written
checkout_walk(objects, dir, t) ==
    IF t.status = "panic" THEN [status |-> "panic", st |-> WalkStart]
    ELSE IF t.status = "none" THEN [status |-> "ok", st |-> WalkStart]
    ELSE dropped(walk_tree(objects, dir, dir, t.entries, 1, WalkStart))

checkout_tip(objects, dir, tip) ==
    IF tip.kind = "sha" THEN checkout_walk(objects, dir, walk(objects, tip.value))
    ELSE [status |-> IF tip.kind = "err" THEN "err" ELSE "panic", st |-> WalkStart]

write_index(r) ==
    [status |-> r.status, st |-> r.st,
     index |-> IF r.status # "ok" THEN <<>> ELSE encode_index(Index_new(r.st.idx)).index]

checkout_head(files, objects, dir) ==
    write_index(checkout_tip(objects, dir, resolve_ref(files, dir, Str_HEAD, MaxRefDepth)))

---------------------------------------------------------------------------
(* The repositories checkout_head and log are run on.                      *)

\* An entry of a tree as git writes it: the mode, the name, and what it
\* names, which is a blob with a content, a tree with entries, or a commit of
\* another repository; `stored` tells whether that object is in this one.
FileEntry(mode, name, content, stored) ==
    [mode |-> mode, name |-> name, kind |-> "blob", content |-> content,
     entries |-> <<>>, stored |-> stored]
DirEntry(name, entries, stored) ==
    [mode |-> Str_40000, name |-> name, kind |-> "tree", content |-> <<>>,
     entries |-> entries, stored |-> stored]
LinkEntry(name) ==
    [mode |-> Str_160000, name |-> name, kind |-> "commit", content |-> <<>>,
     entries |-> <<>>, stored |-> FALSE]

Person == <<65, 32, 60, 97, 64, 98, 62, 32, 49, 32, 43, 48, 48, 48, 48>> \o <<10>>
CommitContent(tree, parents, signed, message) ==
    <<116, 114, 101, 101, 32>> \o to_hex(tree) \o <<10>>
        \o concat_all([i \in 1..Len(parents) |-> <<112, 97, 114, 101, 110, 116, 32>> \o to_hex(parents[i]) \o <<10>>])
        \o <<97, 117, 116, 104, 111, 114, 32>> \o Person \o <<99, 111, 109, 109, 105, 116, 116, 101, 114, 32>> \o Person
        \o (IF signed THEN <<103, 112, 103, 115, 105, 103, 32, 45, 45, 45, 45, 45, 66, 69, 71, 73, 78>> \o <<10>> \o <<32, 115, 105, 103>> \o <<10>> ELSE <<>>)
        \o <<10>> \o message \o <<10>>
CommitObject(tree, parents, signed, message) ==
    [obj_type |-> "commit", content |-> CommitContent(tree, parents, signed, message)]

\* The object an entry names, and the content of the tree object of entries
RECURSIVE EntryObject(_)
RECURSIVE TreeContent(_)
EntryObject(e) ==
    CASE e.kind = "tree" -> [obj_type |-> "tree", content |-> TreeContent(e.entries)]
      [] e.kind = "commit" ->
             CommitObject(object_sha(Blob(<<>>)), <<>>, FALSE, e.name)
      [] OTHER -> Blob(e.content)
TreeContent(entries) ==
    concat_all([i \in 1..Len(entries) |->
                   entries[i].mode \o <<32>> \o entries[i].name \o <<0>>
                       \o object_sha(EntryObject(entries[i]))])
TreeObject(entries) == [obj_type |-> "tree", content |-> TreeContent(entries)]

\* The objects of a tree's entries that are stored, those below them included
RECURSIVE StoredBelow(_)
StoredBelow(entries) ==
    UNION {IF ~entries[i].stored THEN {}
           ELSE {EntryObject(entries[i])} \cup StoredBelow(entries[i].entries)
           : i \in 1..Len(entries)}

\* .git/objects with these objects as loose files
LooseObjects(objs) ==
    [hex \in {to_hex(object_sha(o)) : o \in objs} |->
        deflate_stored(object_encode(CHOOSE o \in objs : to_hex(object_sha(o)) = hex))]

\* .git/HEAD naming the branch master, and the branch naming the tip
Str_master == <<109, 97, 115, 116, 101, 114>>
BranchFiles(dir, tip) ==
    (sym_ref_path(dir, Str_HEAD) :> SymRef(path_push(Str_refs_heads, Str_master)))
        @@ (sym_ref_path(dir, Str_master) :> to_hex(tip) \o <<10>>)

\* The entries the root trees of the model are made of, in the order of their
\* names: a symlink, files of both modes, a directory with a submodule and a
\* file, a file whose blob is missing, a directory named as the clone's
\* directory is, and a directory whose tree is missing.
RootChoices ==
    << FileEntry(Str_120000, <<97>>, <<98>>, TRUE),
       FileEntry(Str_100644, <<98>>, <<1>>, TRUE),
       FileEntry(Str_100755, <<99>>, <<2>>, TRUE),
       DirEntry(<<100>>, <<LinkEntry(<<108>>), FileEntry(Str_100644, <<109>>, <<3>>, TRUE)>>, TRUE),
       FileEntry(Str_100644, <<101>>, <<4>>, FALSE),
       DirEntry(<<120>>, <<FileEntry(Str_100644, <<102>>, <<1, 2>>, TRUE)>>, TRUE),
       DirEntry(<<121>>, <<FileEntry(Str_100644, <<103>>, <<5>>, TRUE)>>, FALSE) >>

\* A root tree has MaxRootEntries of them at most
MaxRootEntries == 3

RECURSIVE Chosen(_, _)
Chosen(picked, i) ==
    IF i > Len(RootChoices) THEN <<>>
    ELSE IF i \in picked THEN <<RootChoices[i]>> \o Chosen(picked, i + 1)
    ELSE Chosen(picked, i + 1)

\* The directories cloned into: a name, and the same name with the separator
\* the shell's completion leaves behind it
CloneDirs == {<<120>>, <<120, 47>>}

\* What is stored of HEAD's commit: the commit and its tree, the commit
\* alone, or neither
HeadKinds == {"commit and tree", "commit", "nothing"}

WorkShapes ==
    {[dir |-> dir, head |-> head, entries |-> Chosen(picked, 1)]
     : dir \in CloneDirs, head \in HeadKinds,
       picked \in {s \in SUBSET (1..Len(RootChoices)) : Cardinality(s) <= MaxRootEntries}}

HeadCommit(shape) ==
    CommitObject(object_sha(TreeObject(shape.entries)), <<>>, FALSE, <<109>>)

ShapeObjects(shape) ==
    CASE shape.head = "nothing" -> StoredBelow(shape.entries)
      [] shape.head = "commit" -> {HeadCommit(shape)} \cup StoredBelow(shape.entries)
      [] OTHER -> {HeadCommit(shape), TreeObject(shape.entries)}
                      \cup StoredBelow(shape.entries)

InitCheckout ==
    /\ DeltaIdle
    /\ IndexIdle
    /\ PackIdle
    /\ RepoIdle
    /\ RefsIdle
    /\ StagingIdle
    /\ WriterIdle
    /\ SidebandIdle
    /\ CodecsIdle
    /\ w_shape \in WorkShapes
    /\ w_dir = w_shape.dir
    /\ \E tip \in {object_sha(HeadCommit(w_shape))} : w_files = BranchFiles(w_shape.dir, tip)
    /\ w_objects = LooseObjects(ShapeObjects(w_shape))
    /\ w_tree = NoFiles
    /\ w_dirs = {}
    /\ w_index = <<>>
    /\ w_sha = <<>>
    /\ w_visited = <<>>
    /\ w_printed = <<>>
    /\ w_result = ""
    /\ w_pc = "cloned"

\* repo.checkout_head(), the last step of clone
CheckoutHead ==
    /\ w_pc = "cloned"
    /\ \E r \in {checkout_head(w_files, w_objects, w_dir)} :
          /\ w_tree' = r.st.files
          /\ w_dirs' = r.st.dirs
          /\ w_index' = r.index
          /\ w_result' = r.status
    /\ w_pc' = "checked out"
    /\ UNCHANGED <<w_shape, w_dir, w_files, w_objects, w_sha, w_visited, w_printed>>
    /\ UNCHANGED notWork

NextCheckout == CheckoutHead
SpecCheckout == InitCheckout /\ [][NextCheckout]_vars

\* The files a tree's entries stand for, those of its directories included:
\* where checkout is to write each (`full`), its path from the root of the
\* repository (`rel`), its content and the hash of its blob
RECURSIVE FilesBelow(_, _, _)
FilesBelow(entries, full, rel) ==
    UNION {CASE entries[i].kind = "blob" /\ entries[i].mode \in {Str_100644, Str_100755} ->
                  {[full |-> path_push(full, entries[i].name),
                    rel |-> path_push(rel, entries[i].name),
                    content |-> entries[i].content,
                    sha |-> object_sha(Blob(entries[i].content))]}
             [] entries[i].kind = "tree" ->
                  FilesBelow(entries[i].entries, path_push(full, entries[i].name),
                             path_push(rel, entries[i].name))
             [] OTHER -> {}
           : i \in 1..Len(entries)}
ShapeFiles(shape) == FilesBelow(shape.entries, path_push(<<>>, shape.dir), <<>>)

\* An object the walk is to read is not in the repository: a blob or a tree
\* below these entries, or HEAD's commit or its tree
RECURSIVE MissingBelow(_)
MissingBelow(entries) ==
    \E i \in 1..Len(entries) :
        \/ entries[i].kind \in {"blob", "tree"} /\ ~entries[i].stored
        \/ MissingBelow(entries[i].entries)
MissingObject(shape) == shape.head # "commit and tree" \/ MissingBelow(shape.entries)

\* A tree below these entries, or this one, has a Symlink or a Gitlink
RECURSIVE LinkBelow(_)
LinkBelow(entries) ==
    \E i \in 1..Len(entries) :
        \/ entries[i].mode \in {Str_120000, Str_160000}
        \/ LinkBelow(entries[i].entries)

\* The index has an entry of that blob
Indexed(index, sha) ==
    index # <<>> /\ \E k \in 1..Len(index.entries) : index.entries[k].sha = sha

\* C13: during checkout_head a Symlink or Gitlink entry is skipped and the
\* walk goes on: when every object is there, every Normal or Executable file
\* of the tree of HEAD, whatever links come before it in its tree, is written
\* to the working tree and indexed.
C13_LinksAreSkipped ==
    (w_pc = "checked out" /\ ~MissingObject(w_shape)) =>
        \A f \in ShapeFiles(w_shape) :
            /\ f.full \in DOMAIN w_tree
            /\ w_tree[f.full].content = f.content
            /\ Indexed(w_index, f.sha)

\* C14: the index checkout_head wrote has exactly one entry for each file the
\* walk wrote, with the hash of its blob and its path from the root of the
\* repository, and no other entry, and its entries are in ascending order of
\* the bytes of their paths.
C14_IndexOfWrittenFiles ==
    (w_pc = "checked out" /\ w_result = "ok") =>
        LET written == {f \in ShapeFiles(w_shape) : f.full \in DOMAIN w_tree}
            entries == w_index.entries
        IN  /\ Len(entries) = Cardinality(written)
            /\ \A f \in written : \E k \in 1..Len(entries) :
                   entries[k].path = f.rel /\ entries[k].sha = f.sha
            /\ \A k \in 1..Len(entries) : \E f \in written :
                   entries[k].path = f.rel /\ entries[k].sha = f.sha
            /\ \A k \in 1..(Len(entries) - 1) : cmp(entries[k].path, entries[k + 1].path) < 0

\* C15: when a step of checkout_head fails, here the read of HEAD's commit,
\* of its tree, of a subtree or of a blob, checkout_head returns an error.
C15_FailedStepIsAnError ==
    (w_pc = "checked out" /\ MissingObject(w_shape)) => w_result # "ok"

---------------------------------------------------------------------------
(* packfile/refs.rs: create_refs and update_head                           *)

\* Path::file_name and Path::parent of a path of plain components: what is
\* after the last separator, and what is before it
last_separator(path) ==
    IF \E i \in 1..Len(path) : path[i] = 47
    THEN CHOOSE i \in 1..Len(path) : path[i] = 47 /\ \A j \in (i + 1)..Len(path) : path[j] # 47
    ELSE 0
file_name(path) == SubSeq(path, last_separator(path) + 1, Len(path))
parent(path) == SubSeq(path, 1, last_separator(path) - 1)

\* create_ref: the file <dir>/<name> with the id and a newline
create_ref(files, dir, name, id) == (path_push(dir, name) :> id \o <<10>>) @@ files

\* create_sym_ref: the file <gitdir>/<name> with "ref: <the_ref>\n"
create_sym_ref(files, gitdir, name, the_ref) ==
    (path_push(gitdir, name) :> Str_ref_ \o the_ref \o <<10>>) @@ files

\* write_refs: each ref in turn, under the last component of its name
RECURSIVE write_refs(_, _, _)
write_refs(files, dir, refs) ==
    IF refs = <<>> THEN files
    ELSE write_refs(create_ref(files, dir, file_name(Head(refs).name), Head(refs).id),
                    dir, Tail(refs))

\* create_refs: the refs that do not end in "^{}", those that start with
\* "refs/tags" to refs/tags and the others to refs/remotes/origin
Str_peeled == <<94, 123, 125>>
Str_refs_tags == <<114, 101, 102, 115, 47, 116, 97, 103, 115>>
Str_refs_remotes_origin == <<114, 101, 102, 115, 47, 114, 101, 109, 111, 116, 101, 115, 47, 111, 114, 105, 103, 105, 110>>
Str_refs_heads_master == <<114, 101, 102, 115, 47, 104, 101, 97, 100, 115, 47, 109, 97, 115, 116, 101, 114>>

create_refs(files, gitdir, refs) ==
    LET kept == SelectSeq(refs, LAMBDA r : ~ends_with(r.name, Str_peeled))
        tags == SelectSeq(kept, LAMBDA r : starts_with(r.name, Str_refs_tags))
        branches == SelectSeq(kept, LAMBDA r : ~starts_with(r.name, Str_refs_tags))
    IN  write_refs(write_refs(files, path_push(gitdir, Str_refs_remotes_origin), branches),
                   path_push(gitdir, Str_refs_tags), tags)

\* update_head: when a ref is named HEAD, the first other ref of its id, or
\* refs/heads/master, is written with that id and HEAD is made a symbolic ref
\* to it
update_head(files, gitdir, refs) ==
    LET heads == {i \in 1..Len(refs) : refs[i].name = Str_HEAD}
        head == refs[CHOOSE i \in heads : \A j \in heads : i <= j]
        same == {i \in 1..Len(refs) : refs[i].name # Str_HEAD /\ refs[i].id = head.id}
        relpath == IF same = {} THEN Str_refs_heads_master
                   ELSE refs[CHOOSE i \in same : \A j \in same : i <= j].name
    IN  IF heads = {} THEN files
        ELSE create_sym_ref(create_ref(files, parent(path_push(gitdir, relpath)),
                                       file_name(path_push(gitdir, relpath)), head.id),
                            gitdir, Str_HEAD, relpath)

\* What a remote advertises: MaxAdvertised refs at most, in the order of the
\* names below, each with one of two ids
MaxAdvertised == 3

GitDir == <<114, 47, 46, 103, 105, 116>>
AdvertisedNames ==
    << Str_HEAD, <<114, 101, 102, 115, 47, 104, 101, 97, 100, 115, 47, 109, 97, 105, 110>>, Str_refs_heads_master, <<114, 101, 102, 115, 47, 112, 117, 108, 108, 47, 49, 47, 104, 101, 97, 100>>,
       <<114, 101, 102, 115, 47, 112, 117, 108, 108, 47, 50, 47, 104, 101, 97, 100>>, <<114, 101, 102, 115, 47, 116, 97, 103, 115, 47, 118, 49>>, <<114, 101, 102, 115, 47, 116, 97, 103, 115, 47, 118, 49, 94, 123, 125>> >>
AdvertisedIds == {to_hex(object_sha(Blob(<<1>>))), to_hex(object_sha(Blob(<<2>>)))}

RECURSIVE Advertised(_, _)
Advertised(i, left) ==
    IF i > Len(AdvertisedNames) THEN {<<>>}
    ELSE Advertised(i + 1, left)
           \cup (IF left = 0 THEN {}
                 ELSE {<<[id |-> id, name |-> AdvertisedNames[i]]>> \o rest
                       : id \in AdvertisedIds, rest \in Advertised(i + 1, left - 1)})

InitWriter ==
    /\ DeltaIdle
    /\ IndexIdle
    /\ PackIdle
    /\ RepoIdle
    /\ RefsIdle
    /\ StagingIdle
    /\ WorkIdle
    /\ SidebandIdle
    /\ CodecsIdle
    /\ g_refs \in Advertised(1, MaxAdvertised)
    /\ g_files = NoFiles
    /\ g_result = ""
    /\ g_pc = "discovered"

\* refs::create_refs(gitdir, &refs), as clone calls it after the fetch
CreateRefs ==
    /\ g_pc = "discovered"
    /\ g_files' = create_refs(g_files, GitDir, g_refs)
    /\ g_result' = "ok"
    /\ g_pc' = "refs"
    /\ UNCHANGED g_refs
    /\ UNCHANGED notWriter

\* refs::update_head(gitdir, &refs), as clone calls it next
UpdateHead ==
    /\ g_pc = "refs"
    /\ g_files' = update_head(g_files, GitDir, g_refs)
    /\ g_result' = "ok"
    /\ g_pc' = "head"
    /\ UNCHANGED g_refs
    /\ UNCHANGED notWriter

NextWriter == CreateRefs \/ UpdateHead
SpecWriter == InitWriter /\ [][NextWriter]_vars

\* The file is in the directory, or in a directory below it
Under(path, dir) == starts_with(path, Append(dir, 47))

\* C17: create_refs writes no file for a ref whose name ends in "^{}"; every
\* other ref is written as a file that holds its id and a newline, under
\* refs/tags when its name starts with refs/tags/ and under
\* refs/remotes/origin otherwise, and no other file is written.
C17_EveryRefHasItsFile ==
    g_pc = "refs" =>
        LET kept == {i \in 1..Len(g_refs) : ~ends_with(g_refs[i].name, Str_peeled)}
            home(i) == IF starts_with(g_refs[i].name, Append(Str_refs_tags, 47))
                       THEN path_push(GitDir, Str_refs_tags)
                       ELSE path_push(GitDir, Str_refs_remotes_origin)
        IN  /\ \A i \in kept : \E path \in DOMAIN g_files :
                   Under(path, home(i)) /\ g_files[path] = g_refs[i].id \o <<10>>
            /\ \A path \in DOMAIN g_files : \E i \in kept :
                   Under(path, home(i)) /\ g_files[path] = g_refs[i].id \o <<10>>

\* C18: update_head leaves HEAD as "ref: <R>\n" for a ref R other than HEAD
\* that has the id of the ref named HEAD, and as "ref: refs/heads/master\n"
\* when no ref is named HEAD or none has its id.
C18_HeadIsWritten ==
    g_pc = "head" =>
        LET heads == {i \in 1..Len(g_refs) : g_refs[i].name = Str_HEAD}
            same == {i \in 1..Len(g_refs) :
                        /\ g_refs[i].name # Str_HEAD
                        /\ \E h \in heads : g_refs[h].id = g_refs[i].id}
            HEAD == path_push(GitDir, Str_HEAD)
        IN  /\ HEAD \in DOMAIN g_files
            /\ IF same # {}
               THEN \E i \in same : g_files[HEAD] = Str_ref_ \o g_refs[i].name \o <<10>>
               ELSE g_files[HEAD] = Str_ref_ \o Str_refs_heads_master \o <<10>>

---------------------------------------------------------------------------
(* Repo::log                                                                *)

\* One turn of the loop of Repo::log on what read_object returned for `sha`:
\* an Err is returned, an object that is no commit panics, a commit of no
\* parents ends the loop, any other commit hands over to its first parent
log_commit(commit) ==
    IF ~commit.some THEN [status |-> "panic", sha |-> <<>>]
    ELSE IF commit.parents = <<>> THEN [status |-> "break", sha |-> <<>>]
    ELSE [status |-> "next", sha |-> commit.parents[1]]
log_read(r) ==
    IF r.status # "ok" THEN [status |-> r.status, sha |-> <<>>]
    ELSE log_commit(as_commit(r.obj))
log_turn(objects, sha) == log_read(read_object_of(objects, sha))

\* The histories log is run on: MaxHistory commits at most, each the only
\* parent of the next; the last may be a merge of the one before it and of the
\* first; the commits may be signed; one of them may be missing from the
\* repository.  `rev` is what log is asked for.
MaxHistory == 4

SomeTree == TreeObject(<<RootChoices[2]>>)
RECURSIVE HistoryCommit(_, _)
HistoryCommit(shape, k) ==
    CommitObject(object_sha(SomeTree),
                 IF k = 1 THEN <<>>
                 ELSE IF shape.merge /\ k = shape.history /\ k > 2
                 THEN <<object_sha(HistoryCommit(shape, k - 1)),
                        object_sha(HistoryCommit(shape, 1))>>
                 ELSE <<object_sha(HistoryCommit(shape, k - 1))>>,
                 shape.signed, <<48 + k>>)
HistoryTip(shape) == object_sha(HistoryCommit(shape, shape.history))

Revs == {"HEAD", "branch", "hash", "unknown"}
LogShapes ==
    {[dir |-> <<114>>, history |-> n, merge |-> m, signed |-> s, lost |-> l, rev |-> rev]
     : n \in 1..MaxHistory, m \in BOOLEAN, s \in BOOLEAN, l \in 0..MaxHistory, rev \in Revs}

RevName(shape) ==
    CASE shape.rev = "HEAD" -> Str_HEAD
      [] shape.rev = "branch" -> Str_master
      [] shape.rev = "hash" -> to_hex(HistoryTip(shape))
      [] OTHER -> <<110, 111, 112, 101>>

InitLog ==
    /\ DeltaIdle
    /\ IndexIdle
    /\ PackIdle
    /\ RepoIdle
    /\ RefsIdle
    /\ StagingIdle
    /\ WriterIdle
    /\ SidebandIdle
    /\ CodecsIdle
    /\ w_shape \in {s \in LogShapes : s.lost <= s.history}
    /\ w_dir = w_shape.dir
    /\ \E tip \in {HistoryTip(w_shape)} : w_files = BranchFiles(w_shape.dir, tip)
    /\ w_objects = LooseObjects({SomeTree, Blob(<<1>>)}
                        \cup {HistoryCommit(w_shape, k) : k \in (1..w_shape.history) \ {w_shape.lost}})
    /\ w_tree = NoFiles
    /\ w_dirs = {}
    /\ w_index = <<>>
    /\ w_sha = <<>>
    /\ w_visited = <<>>
    /\ w_printed = <<>>
    /\ w_result = ""
    /\ w_pc = "cloned"

\* Repo::log up to its loop: `rev` is resolved
LogResolve ==
    /\ w_pc = "cloned"
    /\ \E name \in {RevName(w_shape)} : \E r \in {resolve_ref(w_files, w_dir, name, MaxRefDepth)} :
          IF r.kind = "sha"
          THEN /\ w_sha' = r.value
               /\ w_pc' = "logging"
               /\ UNCHANGED w_result
          ELSE /\ w_result' = (IF r.kind = "err" THEN "err" ELSE "panic")
               /\ w_pc' = "logged"
               /\ UNCHANGED w_sha
    /\ UNCHANGED <<w_shape, w_dir, w_files, w_objects, w_tree, w_dirs, w_index, w_visited,
                   w_printed>>
    /\ UNCHANGED notWork

\* One turn of the loop of Repo::log.  Nothing in it writes to stdout.
LogTurn ==
    /\ w_pc = "logging"
    /\ \E t \in {log_turn(w_objects, w_sha)} :
          /\ w_visited' = IF t.status \in {"next", "break"} THEN Append(w_visited, w_sha)
                          ELSE w_visited
          /\ IF t.status = "next"
             THEN /\ w_sha' = t.sha
                  /\ UNCHANGED <<w_result, w_pc>>
             ELSE /\ w_result' = (IF t.status = "break" THEN "ok" ELSE t.status)
                  /\ w_pc' = "logged"
                  /\ UNCHANGED w_sha
    /\ UNCHANGED <<w_shape, w_dir, w_files, w_objects, w_tree, w_dirs, w_index, w_printed>>
    /\ UNCHANGED notWork

NextLog == LogResolve \/ LogTurn
SpecLog == InitLog /\ [][NextLog]_vars

\* C19: log(rev) visits the commits of the first-parent chain from the commit
\* of rev down to the root commit, child before parent, and prints one block
\* for each, "commit <hash>" and what follows: a history of n commits, each
\* the parent of the next, gives n blocks.
C19_OneBlockPerCommit ==
    (w_pc = "logged" /\ w_result = "ok") =>
        /\ w_visited = [i \in 1..w_shape.history |->
                           object_sha(HistoryCommit(w_shape, w_shape.history + 1 - i))]
        /\ Len(w_printed) = Len(w_visited)
        /\ \A i \in 1..Len(w_printed) :
               starts_with(w_printed[i], <<99, 111, 109, 109, 105, 116, 32>> \o to_hex(w_visited[i]))

---------------------------------------------------------------------------
(* remote/mod.rs: read_packet_line and receive_with_sideband               *)

\* u64::from_str_radix(s, 16) of the four bytes of a pkt-line header: an
\* optional '+' and one hex digit or more
RECURSIVE hex_value(_, _)
hex_value(s, acc) ==
    IF s = <<>> THEN acc ELSE hex_value(Tail(s), acc * 16 + hex_digit_value(Head(s)))
from_str_radix_16(s) ==
    LET of(digits) ==
          IF digits = <<>> \/ \E i \in 1..Len(digits) : ~is_hex_digit(digits[i])
          THEN [ok |-> FALSE, value |-> 0]
          ELSE [ok |-> TRUE, value |-> hex_value(digits, 0)]
    IN  of(IF s # <<>> /\ s[1] = 43 THEN Tail(s) ELSE s)

\* read_packet_line: the four bytes of the length, then length - 4 bytes of
\* the line; a length of 4 or less leaves the line empty
read_packet_line(stream) ==
    LET err == [ok |-> FALSE, line |-> <<>>, rest |-> stream]
        body(length) ==
          IF ~length.ok THEN err
          ELSE IF length.value <= 4
          THEN [ok |-> TRUE, line |-> <<>>, rest |-> Slice(stream, 4, Len(stream))]
          ELSE IF Len(stream) < length.value THEN err
          ELSE [ok |-> TRUE, line |-> Slice(stream, 4, length.value),
                rest |-> Slice(stream, length.value, Len(stream))]
    IN  IF Len(stream) < 4 THEN err
        ELSE IF ~is_utf8(Slice(stream, 0, 4), 1) THEN err
        ELSE body(from_str_radix_16(Slice(stream, 0, 4)))

Str_NAK == <<78, 65, 75, 10>>

\* One turn of the loop of receive_with_sideband on the line read: what is
\* done with it ("continue", "return" or "err"), and what it adds to the pack
\* data and to stderr
sideband_turn(p) ==
    LET turn(status, data, msg) == [status |-> status, data |-> data, msg |-> msg]
    IN  IF ~p.ok THEN turn("err", <<>>, <<>>)
        ELSE IF p.line = Str_NAK THEN turn("continue", <<>>, <<>>)
        ELSE IF p.line = <<>> THEN turn("return", <<>>, <<>>)
        ELSE IF p.line[1] = 1 THEN turn("continue", Tail(p.line), <<>>)
        ELSE IF p.line[1] = 2
        THEN IF is_utf8(Tail(p.line), 1) THEN turn("continue", <<>>, Tail(p.line))
             ELSE turn("err", <<>>, <<>>)
        ELSE IF p.line[1] = 3
        THEN IF is_utf8(Tail(p.line), 1) THEN turn("err", <<>>, <<101, 114, 114, 111, 114, 58, 32>> \o Tail(p.line))
             ELSE turn("err", <<>>, <<>>)
        ELSE turn("err", <<>>, <<>>)

\* What the server sends: MaxLines pkt-lines at most, then a flush packet
\* unless the connection is cut.  A line is NAK, pack data on channel 1 (of no
\* byte, of one and of two), progress on channel 2 (ASCII, a whole character
\* of two bytes, and the first byte of one whose second byte comes with the
\* next packet), an error on channel 3, or a line of no channel.
MaxLines == 2

SentLines ==
    { Str_NAK, <<1>>, <<1, 7>>, <<1, 8, 9>>, <<2, 111, 107>>, <<2, 195, 169>>, <<2, 195>>,
      <<3, 101>>, <<4, 120>> }

\* pkt-line framing: the length of the line and of the four bytes of the
\* length itself, in four hex digits; 0000 is the flush packet
pkt_line(line) ==
    IF line = <<>> THEN <<48, 48, 48, 48>>
    ELSE LET n == Len(line) + 4
         IN  <<HexDigit((n \div 4096) % 16), HexDigit((n \div 256) % 16),
               HexDigit((n \div 16) % 16), HexDigit(n % 16)>> \o line

RECURSIVE SentUpTo(_)
SentUpTo(n) ==
    IF n = 0 THEN {<<>>}
    ELSE SentUpTo(n - 1)
           \cup {Append(l, x) : l \in {s \in SentUpTo(n - 1) : Len(s) = n - 1}, x \in SentLines}

InitSideband ==
    /\ DeltaIdle
    /\ IndexIdle
    /\ PackIdle
    /\ RepoIdle
    /\ RefsIdle
    /\ StagingIdle
    /\ WorkIdle
    /\ WriterIdle
    /\ CodecsIdle
    /\ s_lines \in {l \o end : l \in SentUpTo(MaxLines), end \in {<< <<>> >>, <<>>}}
    /\ s_stream = concat_all([i \in 1..Len(s_lines) |-> pkt_line(s_lines[i])])
    /\ s_contents = <<>>
    /\ s_stderr = <<>>
    /\ s_result = ""
    /\ s_pc = "receiving"

\* One turn of the loop of receive_with_sideband
ReceiveLine ==
    /\ s_pc = "receiving"
    /\ \E p \in {read_packet_line(s_stream)} : \E t \in {sideband_turn(p)} :
          /\ s_stream' = p.rest
          /\ s_contents' = s_contents \o t.data
          /\ s_stderr' = s_stderr \o t.msg
          /\ IF t.status = "continue"
             THEN UNCHANGED <<s_result, s_pc>>
             ELSE /\ s_result' = (IF t.status = "return" THEN "ok" ELSE "err")
                  /\ s_pc' = "done"
    /\ UNCHANGED s_lines
    /\ UNCHANGED notSideband

NextSideband == ReceiveLine
SpecSideband == InitSideband /\ [][NextSideband]_vars

\* What the lines sent are to end in: the data of the channel-1 lines up to
\* the flush packet, or an error at a channel-3 line
RECURSIVE Demultiplexed(_, _)
Demultiplexed(lines, data) ==
    IF lines = <<>> THEN [result |-> "err", data |-> <<>>]
    ELSE IF Head(lines) = <<>> THEN [result |-> "ok", data |-> data]
    ELSE IF Head(lines) = Str_NAK \/ Head(lines)[1] = 2 THEN Demultiplexed(Tail(lines), data)
    ELSE IF Head(lines)[1] = 1 THEN Demultiplexed(Tail(lines), data \o Tail(Head(lines)))
    ELSE [result |-> "err", data |-> <<>>]

\* C20: when the flush packet arrives receive_with_sideband returns the
\* payloads of the channel-1 lines received, in their order; lines of channel
\* 2 and NAK lines add nothing and cause no error; a channel-3 line ends the
\* operation with an error.
C20_SidebandDemultiplexed ==
    (s_pc = "done" /\ \A i \in 1..Len(s_lines) : s_lines[i] # <<4, 120>>) =>
        /\ s_result = Demultiplexed(s_lines, <<>>).result
        /\ s_result = "ok" => s_contents = Demultiplexed(s_lines, <<>>).data

---------------------------------------------------------------------------
(* remote/mod.rs: write_pktline, write_as_pktline and                      *)
(* create_negotiation_request                                              *)

\* `4 + len as u8`: the length is cut to 8 bits and 4 is added in 8 bits; a
\* sum above 255 panics where overflow is checked and wraps where it is not.
\* -1 stands for the panic.
length_prefix(build, len) ==
    IF 4 + (len % 256) <= 255 THEN 4 + (len % 256)
    ELSE IF build = "debug" THEN -1
    ELSE (4 + (len % 256)) % 256

\* format!("{:04x}", n) of a u8
format_04x(n) == <<48, 48, HexDigit(n \div 16), HexDigit(n % 16)>>

\* write_pktline(msg, buf): what buf is after the call, unless the call panics
write_pktline(build, msg, buf) ==
    LET with(n) == IF n < 0 THEN [ok |-> FALSE, buf |-> buf]
                   ELSE [ok |-> TRUE, buf |-> buf \o format_04x(n) \o msg]
    IN  with(length_prefix(build, Len(msg)))

\* write_as_pktline(line, buf)
write_as_pktline(build, line, buf) ==
    LET with(n) == IF n < 0 THEN [ok |-> FALSE, buf |-> buf]
                   ELSE [ok |-> TRUE, buf |-> buf \o format_04x(n) \o concat_all(line)]
    IN  with(length_prefix(build, Len(concat_all(line))))

\* capabilities.join(" ")
RECURSIVE join(_, _)
join(strs, sep) ==
    IF strs = <<>> THEN <<>>
    ELSE IF Len(strs) = 1 THEN strs[1]
    ELSE strs[1] \o sep \o join(Tail(strs), sep)

Str_want == <<119, 97, 110, 116, 32>>
Str_done == <<100, 111, 110, 101, 10>>
Str_0000 == <<48, 48, 48, 48>>

\* The filter of create_negotiation_request
wanted(r) ==
    /\ ~ends_with(r.name, Str_peeled)
    /\ starts_with(r.name, Str_refs_heads) \/ starts_with(r.name, Str_refs_tags)

\* The loop of create_negotiation_request over the refs from the k-th on; i
\* is the number of refs the filter has let through
RECURSIVE want_lines(_, _, _, _, _, _)
want_lines(build, caps, refs, k, i, lines) ==
    IF k > Len(refs) THEN [ok |-> TRUE, buf |-> lines]
    ELSE IF ~wanted(refs[k]) THEN want_lines(build, caps, refs, k + 1, i, lines)
    ELSE LET second(first) ==
               IF ~first.ok THEN first
               ELSE write_as_pktline(build, <<Str_want, refs[k].id, <<10>>>>, first.buf)
             next(line) ==
               IF ~line.ok THEN line
               ELSE want_lines(build, caps, refs, k + 1, i + 1, line.buf)
         IN  next(second(IF i = 0
                         THEN write_as_pktline(build, <<Str_want, refs[k].id, <<32>>,
                                                        join(caps, <<32>>), <<10>>>>, lines)
                         ELSE [ok |-> TRUE, buf |-> lines]))

\* create_negotiation_request
create_negotiation_request(build, caps, refs) ==
    LET finish(lines) ==
          IF ~lines.ok THEN lines
          ELSE write_pktline(build, Str_done, lines.buf \o Str_0000)
    IN  finish(want_lines(build, caps, refs, 1, 0, <<>>))

\* The capabilities the clients of this repository send, and those a git of
\* today sends
ClientCapabilities ==
    <<<<109, 117, 108, 116, 105, 95, 97, 99, 107, 95, 100, 101, 116, 97, 105, 108, 101, 100>>, <<115, 105, 100, 101, 45, 98, 97, 110, 100, 45, 54, 52, 107>>, <<97, 103, 101, 110, 116, 61, 103, 105, 116, 47, 49, 46, 56, 46, 49>>>>
GitCapabilities ==
    <<<<109, 117, 108, 116, 105, 95, 97, 99, 107, 95, 100, 101, 116, 97, 105, 108, 101, 100>>, <<110, 111, 45, 100, 111, 110, 101>>, <<115, 105, 100, 101, 45, 98, 97, 110, 100, 45, 54, 52, 107>>, <<116, 104, 105, 110, 45, 112, 97, 99, 107>>,
      <<105, 110, 99, 108, 117, 100, 101, 45, 116, 97, 103>>, <<111, 102, 115, 45, 100, 101, 108, 116, 97>>, <<100, 101, 101, 112, 101, 110, 45, 115, 105, 110, 99, 101>>, <<100, 101, 101, 112, 101, 110, 45, 110, 111, 116>>,
      <<100, 101, 101, 112, 101, 110, 45, 114, 101, 108, 97, 116, 105, 118, 101>>, <<110, 111, 45, 112, 114, 111, 103, 114, 101, 115, 115>>, <<115, 104, 97, 108, 108, 111, 119>>, <<97, 108, 108, 111, 119, 45, 116, 105, 112, 45, 115, 104, 97, 49, 45, 105, 110, 45, 119, 97, 110, 116>>,
      <<97, 108, 108, 111, 119, 45, 114, 101, 97, 99, 104, 97, 98, 108, 101, 45, 115, 104, 97, 49, 45, 105, 110, 45, 119, 97, 110, 116>>, <<102, 105, 108, 116, 101, 114>>, <<97, 103, 101, 110, 116, 61, 103, 105, 116, 47, 50, 46, 51, 57, 46, 50>>>>

\* The refs a server advertises: two branches, a tag and its peeled form, HEAD
\* and a ref outside refs/heads and refs/tags
WantedIds == {to_hex(object_sha(Blob(<<1>>))), to_hex(object_sha(Blob(<<1, 2>>)))}
WantedNames ==
    {<<114, 101, 102, 115, 47, 104, 101, 97, 100, 115, 47, 109, 97, 115, 116, 101, 114>>, <<114, 101, 102, 115, 47, 104, 101, 97, 100, 115, 47, 109, 121, 98, 114, 97, 110, 99, 104>>, <<114, 101, 102, 115, 47, 116, 97, 103, 115, 47, 109, 121, 116, 97, 103>>,
     <<114, 101, 102, 115, 47, 116, 97, 103, 115, 47, 109, 121, 116, 97, 103, 94, 123, 125>>, <<72, 69, 65, 68>>, <<114, 101, 102, 115, 47, 112, 117, 108, 108, 47, 49, 47, 104, 101, 97, 100>>}
MaxWanted == 2

RECURSIVE WantedLists(_)
WantedLists(n) ==
    IF n = 0 THEN {<<>>}
    ELSE WantedLists(n - 1)
           \cup {Append(l, [id |-> id, name |-> name])
                 : l \in {x \in WantedLists(n - 1) : Len(x) = n - 1},
                   id \in WantedIds, name \in WantedNames}

\* The lines given to write_as_pktline and, joined, to write_pktline: those of
\* the request, and payloads of the lengths around 252 and 256
Filler(n) == [i \in 1..n |-> 120]
PayloadChoices ==
    {<<>>, << <<>> >>, <<Str_done>>, <<Str_want, <<97, 98, 99>>, <<10>>>>,
     <<Filler(251)>>, <<Str_want, Filler(247)>>, <<Filler(255)>>, <<Filler(256)>>,
     <<Filler(150), Filler(150)>>}

InitRequest ==
    /\ DeltaIdle
    /\ IndexIdle
    /\ PackIdle
    /\ RepoIdle
    /\ RefsIdle
    /\ StagingIdle
    /\ WorkIdle
    /\ WriterIdle
    /\ SidebandIdle
    /\ TreeIdle
    /\ ReaderIdle
    /\ q_build \in {"debug", "release"}
    /\ q_caps \in {ClientCapabilities, GitCapabilities}
    /\ q_refs \in WantedLists(MaxWanted)
    /\ q_items \in PayloadChoices
    /\ q_buf = <<>>
    /\ q_result = ""
    /\ q_pc = "start"

\* write_pktline(msg, &mut buf) with the items as one string
WritePktline ==
    /\ q_pc = "start"
    /\ \E w \in {write_pktline(q_build, concat_all(q_items), q_buf)} :
          /\ q_buf' = w.buf
          /\ q_result' = (IF w.ok THEN "ok" ELSE "panic")
    /\ q_pc' = "line"
    /\ UNCHANGED <<q_build, q_caps, q_refs, q_items>>
    /\ UNCHANGED notRequest

\* write_as_pktline(&items, &mut buf)
WriteAsPktline ==
    /\ q_pc = "start"
    /\ \E w \in {write_as_pktline(q_build, q_items, q_buf)} :
          /\ q_buf' = w.buf
          /\ q_result' = (IF w.ok THEN "ok" ELSE "panic")
    /\ q_pc' = "joined line"
    /\ UNCHANGED <<q_build, q_caps, q_refs, q_items>>
    /\ UNCHANGED notRequest

\* create_negotiation_request(&capabilities, &refs)
CreateNegotiationRequest ==
    /\ q_pc = "start"
    /\ \E w \in {create_negotiation_request(q_build, q_caps, q_refs)} :
          /\ q_buf' = w.buf
          /\ q_result' = (IF w.ok THEN "ok" ELSE "panic")
    /\ q_pc' = "request"
    /\ UNCHANGED <<q_build, q_caps, q_refs, q_items>>
    /\ UNCHANGED notRequest

NextRequest == WritePktline \/ WriteAsPktline \/ CreateNegotiationRequest
SpecRequest == InitRequest /\ [][NextRequest]_vars

\* A pkt-line as the protocol defines it: the length of the payload and of the
\* four bytes of the length itself, in four hex digits, then the payload
Framed(payload) ==
    LET n == Len(payload) + 4
    IN  <<HexDigit((n \div 4096) % 16), HexDigit((n \div 256) % 16),
          HexDigit((n \div 16) % 16), HexDigit(n % 16)>> \o payload

\* The refs of the request: not peeled, and under refs/heads or refs/tags
WantedRefs == SelectSeq(q_refs, wanted)

C27_PrefixIsLengthPlusFour ==
    q_pc \in {"line", "joined line"} =>
        /\ q_result = "ok"
        /\ q_buf = Framed(concat_all(q_items))

---------------------------------------------------------------------------
(* store/tree.rs: Tree::parse on the tree objects a repository can hold    *)

\* The modes of the entries: those of EntryMode, the short form of a regular
\* file, and two that old repositories hold (a group-writable file, 100664,
\* and a file of mode 100600)
Str_100664 == <<49, 48, 48, 54, 54, 52>>
Str_100600 == <<49, 48, 48, 54, 48, 48>>
ClosedModes == {Str_100644, Str_100755, Str_120000, Str_160000, Str_40000}
StoredModes == ClosedModes \cup {Str_644, Str_100664, Str_100600}

MaxTreeEntries == 3

\* The i-th entry of a tree is named a, b, c, ...
RECURSIVE StoredTrees(_)
StoredTrees(n) ==
    IF n = 0 THEN {<<>>}
    ELSE StoredTrees(n - 1)
           \cup {Append(t, [mode |-> m, path |-> <<96 + n>>, sha |-> object_sha(Blob(<<1>>))])
                 : t \in {x \in StoredTrees(n - 1) : Len(x) = n - 1}, m \in StoredModes}

\* The content of a tree object: mode, blank, path, nul and sha of each entry
tree_content(entries) ==
    concat_all([i \in 1..Len(entries) |->
                   entries[i].mode \o <<32>> \o entries[i].path \o <<0>> \o entries[i].sha])

InitTree ==
    /\ DeltaIdle
    /\ IndexIdle
    /\ PackIdle
    /\ RepoIdle
    /\ RefsIdle
    /\ StagingIdle
    /\ WorkIdle
    /\ WriterIdle
    /\ SidebandIdle
    /\ RequestIdle
    /\ ReaderIdle
    /\ t_entries \in StoredTrees(MaxTreeEntries) \ {<<>>}
    /\ t_content = tree_content(t_entries)
    /\ t_tree = <<>>
    /\ t_pc = "stored"

\* Tree::parse(content)
TreeParse ==
    /\ t_pc = "stored"
    /\ t_tree' = Tree_parse(t_content)
    /\ t_pc' = "parsed"
    /\ UNCHANGED <<t_entries, t_content>>
    /\ UNCHANGED notTree

NextTree == TreeParse
SpecTree == InitTree /\ [][NextTree]_vars

\* C22: parsing a tree fails as a whole when one of its entries has a mode
\* outside 100644, 100755, 120000, 160000 and 40000; no tree is returned that
\* leaves out that entry or the entries after it.
C22_UnknownModeFailsTheTree ==
    (t_pc = "parsed" /\ \E i \in 1..Len(t_entries) : t_entries[i].mode \notin ClosedModes)
        => ~t_tree.some

---------------------------------------------------------------------------
(* The order and the completeness of the iteration over a pack             *)

\* The offsets of the entries of one kind, in the order of the file
OffsetsOfKind(kinds) ==
    LET offsets == EntryOffsets(p_layout)
        of(idx) == [k \in 1..Len(idx) |-> offsets[idx[k]]]
    IN  of(SelectSeq([i \in 1..Len(p_layout) |-> i], LAMBDA i : p_layout[i].kind \in kinds))

\* The offsets of the items the iterator has yielded so far
Emitted == [k \in 1..Len(p_objects) |-> p_objects[k].offset]

IsPrefix(s, t) == Len(s) <= Len(t) /\ s = SubSeq(t, 1, Len(s))

Iterating == p_pc \in {"collecting", "open", "found", "panic"}
Iterated == p_pc \in {"open", "found"}

\* C23 as stated: the iteration yields the base entries in file order as they
\* are read, and after the last entry has been read the resolved deltas in
\* reverse arrival order, the delta that came last in the file first.
C23_DeltasInReverseArrivalOrder ==
    Iterating =>
        /\ IsPrefix(Emitted, OffsetsOfKind({"Base"}) \o reverse(OffsetsOfKind({"Ofs", "Ref"})))
        /\ Iterated => Len(Emitted) = Len(p_layout)

\* C23 amended: the iteration yields the base entries in file order as they
\* are read, and after the last entry has been read the resolved RefDelta
\* entries in arrival order, then the resolved OfsDelta entries in arrival
\* order.
C23_DeltasInArrivalOrder ==
    Iterating =>
        /\ IsPrefix(Emitted,
                    OffsetsOfKind({"Base"}) \o OffsetsOfKind({"Ref"}) \o OffsetsOfKind({"Ofs"}))
        /\ Iterated => Len(Emitted) = Len(p_layout)

\* A pack of a base, an OfsDelta, a RefDelta and a second OfsDelta was
\* iterated to its end: the RefDelta came out before the first OfsDelta
C23_Witness ==
    /\ p_pc = "open"
    /\ Len(p_layout) = 4
    /\ [i \in 1..4 |-> p_layout[i].kind] = <<"Base", "Ofs", "Ref", "Ofs">>
    /\ Emitted = [k \in 1..4 |-> EntryOffsets(p_layout)[<<1, 3, 2, 4>>[k]]]

\* Every RefDelta of the pack names an object that an entry of the pack stands
\* for (the base of an OfsDelta is an earlier entry by construction, and no
\* chain of the packs is cyclic)
BasesPresent ==
    \A i \in 1..Len(p_layout) :
        p_layout[i].kind = "Ref" =>
            \E j \in 1..Len(p_layout) : Resolved(p_layout, j) = p_layout[i].content

\* C24: for every pack in which the base of each delta is present, by offset
\* or by hash, the iteration does not fail and yields num_objects resolved
\* objects, wherever a base lies relative to its deltas and whatever kinds of
\* delta its chain mixes.
C24_CompletePackIsIterated ==
    BasesPresent =>
        /\ p_pc # "panic"
        /\ Iterated => /\ Len(p_objects) = Len(p_layout)
                       /\ \A k \in 1..Len(p_objects) : p_objects[k].obj.obj_type = "blob"

\* C30: for every entry of a pack, find_by_offset(o) returns the object the
\* iterator yielded for the offset o, with the same type, content and hash.
C30_FindByOffsetAgreesWithIterator ==
    p_pc = "open" =>
        \A k \in 1..Len(p_objects) :
            find_by_offset(p_pack, p_objects[k].offset) = {OkSome(p_objects[k].obj)}

---------------------------------------------------------------------------
(* The chains find_by_offset follows, on pack files of any origin          *)

MaxChainEntries == 3

ChainChoices(i) ==
    EntryChoices(i) \cup {LayoutSame(c) : c \in BaseContents} \cup {LayoutSelf}

RECURSIVE ChainLayouts(_)
ChainLayouts(n) ==
    IF n = 0 THEN {<<>>}
    ELSE LET shorter == ChainLayouts(n - 1)
         IN  shorter \cup {Append(l, e) : l \in {x \in shorter : Len(x) = n - 1},
                                          e \in ChainChoices(n)}

InitChain ==
    /\ StoreIdle
    /\ DeltaIdle
    /\ IndexIdle
    /\ InitPackVars(ChainLayouts(MaxChainEntries), {[kind |-> "none", reseal |-> FALSE]})
NextChain == PackParse \/ ObjectsNext \/ PackFindBySha
SpecChain == InitChain /\ [][NextChain]_vars

\* C25: the resolution of a delta chain in find_by_offset terminates for every
\* pack and index: a chain that is too long, an OfsDelta whose back offset is
\* 0 and RefDeltas whose bases form a cycle end in an error, not in a loop
\* without end.
C25_ChainResolutionTerminates == p_pc = "found" => p_found.status # "hang"

---------------------------------------------------------------------------
(* read_index on index files of any origin                                 *)

\* The trailing 20 bytes of the file are the hash of all the bytes before them
TrailerIntact ==
    /\ Len(x_bytes) >= ShaLen
    /\ Slice(x_bytes, Len(x_bytes) - ShaLen, Len(x_bytes))
         = sha1_hash(Slice(x_bytes, 0, Len(x_bytes) - ShaLen))

\* The file is damaged after it was written: one bit of the trailing hash, or
\* one bit of the size of the first entry, is flipped
DamagePositions == {52, Len(x_bytes) - ShaLen + 1, Len(x_bytes)}

DamageIndex ==
    /\ x_pc = "encoded"
    /\ TrailerIntact
    /\ \E at \in DamagePositions : x_bytes' = [x_bytes EXCEPT ![at] = FlipBit(x_bytes[at])]
    /\ UNCHANGED <<x_index, x_read, x_pc>>
    /\ UNCHANGED notStaging

NextStagingFile == EncodeIndex \/ DamageIndex \/ ReadIndex
SpecStagingFile == InitStaging /\ [][NextStagingFile]_vars

\* Every entry of the index is one read_entry can decode: a regular file that
\* is not executable
Decodable == \A i \in 1..Len(x_index.entries) : x_index.entries[i].file_mode = "Normal"

\* C26: read_index returns an error when the trailing 20 bytes of a staging
\* index differ from the hash of all the bytes before them, and accepts the
\* index when they are equal.
C26_TrailingHashIsVerified ==
    x_pc = "read" =>
        /\ ~TrailerIntact => ~x_read.ok
        /\ (TrailerIntact /\ Decodable) => x_read.ok

---------------------------------------------------------------------------
(* The files of the refs after create_refs                                 *)

\* The refs create_refs keeps: those whose name does not end in "^{}"
KeptRefs == {i \in 1..Len(g_refs) : ~ends_with(g_refs[i].name, Str_peeled)}

\* C29: within one call create_refs writes refs of different names to
\* different files, none over the file of another, so that each ref that is
\* not peeled has a file of its own that holds its hash.
C29_DistinctRefsDistinctFiles ==
    g_pc = "refs" =>
        \E written \in [KeptRefs -> DOMAIN g_files] :
            /\ \A i, j \in KeptRefs : i # j => written[i] # written[j]
            /\ \A i \in KeptRefs : g_files[written[i]] = g_refs[i].id \o <<10>>

---------------------------------------------------------------------------
(* ObjectReader: the count of the bytes consumed                           *)

\* The streams the reader is run on are entry regions of up to
\* MaxStreamEntries entries: a blob of one byte, a blob of BigLen bytes, whose
\* zlib stream does not fit in the buffer of the reader, a RefDelta, or an
\* OfsDelta on an earlier blob of one byte.
MaxStreamEntries == 3
BigLen == BUFFER_SIZE + 4
BigContent == [i \in 1..BigLen |-> i % 7]

StreamChoices(i) ==
    {LayoutBase(<<1>>), LayoutBase(BigContent), LayoutRef(<<1>>)}
        \cup {LayoutOfs(j) : j \in 1..(i - 1)}

RECURSIVE StreamLayouts(_)
StreamLayouts(n) ==
    IF n = 0 THEN {<<>>}
    ELSE LET shorter == StreamLayouts(n - 1)
         IN  shorter \cup {Append(l, e) : l \in {x \in shorter : Len(x) = n - 1},
                                          e \in StreamChoices(n)}

\* The streams git can have written: no OfsDelta on the big blob or on a delta
Streams ==
    {l \in StreamLayouts(MaxStreamEntries) :
        \A i \in 1..Len(l) : l[i].kind = "Ofs" => l[l[i].base] = LayoutBase(<<1>>)}

\* The calls made on a reader: MaxCalls at most, read_object or a read into a
\* buffer of one of the lengths below
MaxCalls == 3
ReadLens == {1, BUFFER_SIZE}

\* The entry region of every stream and the offset where each entry starts.
StreamWritten == [l \in Streams |-> WriteEntries(l, 1, <<>>, <<>>)]

StreamOffsets ==
    [l \in Streams |-> Append(StreamWritten[l].offsets, HEADER_LENGTH + Len(StreamWritten[l].bytes))]

InitReader ==
    /\ DeltaIdle
    /\ IndexIdle
    /\ PackIdle
    /\ RepoIdle
    /\ RefsIdle
    /\ StagingIdle
    /\ WorkIdle
    /\ WriterIdle
    /\ SidebandIdle
    /\ RequestIdle
    /\ TreeIdle
    /\ \E l \in Streams :
          /\ o_layout = l
          /\ o_inner = StreamWritten[l].bytes
    /\ o_rd = ObjectReader_new
    /\ o_calls = <<>>
    /\ o_last = ""
    /\ o_pc = "reading"

\* reader.read_object()
ReaderReadObject ==
    /\ o_pc = "reading"
    /\ Len(o_calls) < MaxCalls
    /\ \E r \in {read_object(o_inner, o_rd)} :
          /\ o_rd' = r.rd
          /\ o_last' = r.status
          /\ o_pc' = (IF r.status = "panic" THEN "failed" ELSE "reading")
    /\ o_calls' = Append(o_calls, [op |-> "read_object", len |-> 0])
    /\ UNCHANGED <<o_layout, o_inner>>
    /\ UNCHANGED notReader

\* reader.read(&mut buf) with a buffer of len bytes
ReaderRead ==
    /\ o_pc = "reading"
    /\ Len(o_calls) < MaxCalls
    /\ \E len \in ReadLens : \E r \in {reader_read(o_inner, o_rd, len)} :
          /\ o_rd' = r.rd
          /\ o_calls' = Append(o_calls, [op |-> "read", len |-> len])
    /\ o_last' = "ok"
    /\ UNCHANGED <<o_layout, o_inner, o_pc>>
    /\ UNCHANGED notReader

NextReader == ReaderReadObject \/ ReaderRead
SpecReader == InitReader /\ [][NextReader]_vars

\* Every call so far was a read_object that returned an object
OnlyObjectsRead ==
    /\ \A k \in 1..Len(o_calls) : o_calls[k].op = "read_object"
    /\ o_last \in {"", "ok"}
    /\ Len(o_calls) <= Len(o_layout)

\* C28: after any sequence of reads and read_object calls consumed_bytes is
\* the number of bytes pulled from the underlying stream less the bytes still
\* in the buffer (cap - pos); hence the offset the pack iteration records for
\* an entry is 12 plus the position where the entry starts in the entry
\* region.
C28_ConsumedBytesIsPosition ==
    o_pc # "idle" =>
        /\ o_rd.consumed_bytes = o_rd.inner_pos - (o_rd.cap - o_rd.pos)
        /\ OnlyObjectsRead =>
              o_rd.consumed_bytes + HEADER_LENGTH = StreamOffsets[o_layout][Len(o_calls) + 1]

\* A blob of one byte, the big blob and a second small blob: after the second
\* read_object the buffer was filled again inside the zlib stream of the big
\* blob, the stream ended inside the buffer, and the third entry is still
\* buffered
C28_Witness ==
    /\ o_pc = "reading"
    /\ o_layout = <<LayoutBase(<<1>>), LayoutBase(BigContent), LayoutBase(<<1>>)>>
    /\ Len(o_calls) = 2
    /\ OnlyObjectsRead
    /\ o_rd.inner_pos > BUFFER_SIZE
    /\ o_rd.pos < o_rd.cap

=============================================================================
